---------------------------- MODULE Spec2Model ----------------------------
(***************************************************************************)
(* EncryptedSearch: the retrieval engine of src/lib/benchmark.ts           *)
(* (runBenchmark and its helpers), the crypto helpers it imports           *)
(* (normalize, prefixes, deriveKeys, encryptJson, decryptJson,             *)
(* computeToken), the IndexedDB cache of src/lib/cache.ts and the index    *)
(* construction of src/scripts/seed.ts.                                    *)
(*                                                                         *)
(* Strings are sequences of one-character strings, so that trimming,       *)
(* lower-casing, prefix enumeration and startsWith are computed and not    *)
(* assumed.  PBKDF2, HMAC and AES-GCM are ideal: a key is the tuple of     *)
(* the inputs it was derived from, a token is the tuple of the index key   *)
(* and the message, and a ciphertext opens only under the key and iv it    *)
(* was made with.  JSON text and base64 text are values of their own,      *)
(* written by stringify / bytesToBase64 and read by parse / base64ToBytes. *)
(*                                                                         *)
(* Spec is a session of the page over a seeded store.  NoteSpec,           *)
(* FetchSpec, CryptoSpec and TextSpec apply single helpers (the sampleNote *)
(* of clientCache by record counts, fetchAllRecords, encryptJson and       *)
(* decryptJson, normalize and prefixes) to inputs a session of the         *)
(* scaled-down store does not present.  CapSpec runs clientCache and       *)
(* decryptScan over stores around the declared size of a dataset.          *)
(* StepSpec follows runBenchmark await by await, PageSpec and PageLive     *)
(* the pagination loop of fetchAllRecords page by page, and SeedSpec the   *)
(* seed script record by record and commit by commit.                      *)
(***************************************************************************)
EXTENDS Integers, Sequences, FiniteSets, TLC

VARIABLES
    seeded,     \* the seeding that populated the store: dataset, id order, KDF set
    db,         \* the Firestore collections: records, index, plaintextIndex
    cache,      \* the IndexedDB object store: datasetId -> CachedDataset, if any
    pc,         \* "idle" | "running" | "done" | "failed"
    run,        \* the options and locals of the current runBenchmark call
    modeIdx,    \* position of the for loop over modes
    results,    \* the local results array of runBenchmark
    audit,      \* per result: what the mode asked of the store (observation only)
    trace,      \* per run: store reads, cache reads/writes, key derivations, failure
    prevCache,  \* the latest clientCache result since the cache was last cleared
    probe       \* a helper called on its own: its inputs, and its outcome once called

vars == <<seeded, db, cache, pc, run, modeIdx, results, audit, trace, prevCache, probe>>

-----------------------------------------------------------------------------
(* Bounds of the model *)

\* records of the large dataset
BigCount == 52

\* complete runs of the seed script over one dataset
MaxSeedRuns == 2

\* flushes of a further run of the seed script before it was interrupted
MaxFlushes == 3

\* longest text normalize and prefixes are called on, letter by letter
MaxTextLen == 4

\* largest document id of the stores fetchAllRecords is called on
MaxDocId == 6

\* largest page size fetchAllRecords is called with
MaxPageSize == 3

-----------------------------------------------------------------------------
(* Program constants *)

CACHE_CAP == 10000
MAX_HITS == 20
FULL_SCAN_PAGE_SIZE == 1000
MAX_RESULT_FETCH == 50
\* chunk(recordIds, 10) in fetchRecordsByIds
BATCH_SIZE == 10
SEED_BATCH_OPS == 450
\* prefixes(value, maxLen = 20)
MAX_PREFIX_LEN == 20

\* flushIfNeeded of scripts/seed.ts: currentIndex % 250 === 0
FLUSH_EVERY == 250

\* an optional value (undefined, null): no element, or the one element
None == <<>>
Some(v) == <<v>>

Min(a, b) == IF a <= b THEN a ELSE b

\* Array.prototype.slice(0, n)
Slice(s, n) == SubSeq(s, 1, Min(n, Len(s)))

Range(s) == {s[i] : i \in 1..Len(s)}

-----------------------------------------------------------------------------
(* Strings *)

UPPER == <<"A", "B", "C", "D", "E", "F", "G", "H", "I", "J", "K", "L", "M",
           "N", "O", "P", "Q", "R", "S", "T", "U", "V", "W", "X", "Y", "Z">>
LOWER == <<"a", "b", "c", "d", "e", "f", "g", "h", "i", "j", "k", "l", "m",
           "n", "o", "p", "q", "r", "s", "t", "u", "v", "w", "x", "y", "z">>

\* the characters \s matches and trim() removes, among those the model uses
IsSpace(c) == c \in {" ", "\t", "\n"}

UpperCase == Range(UPPER)

\* String.prototype.toLowerCase, one character
toLowerCase(c) ==
    IF c \in UpperCase THEN LOWER[CHOOSE i \in 1..Len(UPPER) : UPPER[i] = c] ELSE c

\* String.prototype.trim
trim(s) ==
    LET kept == {k \in 1..Len(s) : ~IsSpace(s[k])}
    IN  IF kept = {} THEN <<>>
        ELSE SubSeq(s, CHOOSE k \in kept : \A j \in kept : k <= j,
                       CHOOSE k \in kept : \A j \in kept : j <= k)

\* replace(/\s+/g, " "): every maximal run of whitespace becomes one space
collapseSpaces(s) ==
    LET first == SelectSeq([k \in 1..Len(s) |-> k],
                           LAMBDA k : ~IsSpace(s[k]) \/ k = 1 \/ ~IsSpace(s[k - 1]))
    IN  [j \in 1..Len(first) |-> IF IsSpace(s[first[j]]) THEN " " ELSE s[first[j]]]

\* normalize without the trim
normalizeUntrimmed(value) ==
    collapseSpaces([i \in 1..Len(value) |-> toLowerCase(value[i])])

\* normalize without the replace
normalizeUncollapsed(value) ==
    LET trimmed == trim(value)
    IN  [i \in 1..Len(trimmed) |-> toLowerCase(trimmed[i])]

\* value.trim().toLowerCase().replace(/\s+/g, " ")
normalize(value) ==
    LET trimmed == trim(value)
        lowered == [i \in 1..Len(trimmed) |-> toLowerCase(trimmed[i])]
    IN  collapseSpaces(lowered)

\* prefixes that does not look at maxLen
prefixesUncapped(value, maxLen) ==
    LET norm == normalize(value)
    IN  [i \in 1..Len(norm) |-> SubSeq(norm, 1, i)]

prefixes(value, maxLen) ==
    LET norm == normalize(value)
        cap  == Min(maxLen, Len(norm))
    IN  [i \in 1..cap |-> SubSeq(norm, 1, i)]

\* String.prototype.startsWith
startsWith(s, p) == Len(p) <= Len(s) /\ SubSeq(s, 1, Len(p)) = p

-----------------------------------------------------------------------------
(* Crypto helpers *)

DEFAULT_KDF == [iterations |-> 100000, hmacHash |-> "SHA-256"]
PQ_KDF == [iterations |-> 300000, hmacHash |-> "SHA-512"]

\* NEXT_PUBLIC_KDF_SALT || "encrypted-search-demo-salt"
getSalt == "encrypted-search-demo-salt"

\* deriveKeys that ignores its options and always derives with DEFAULT_KDF
deriveKeysDefaultOnly(passphrase, salt, options) ==
    LET bits == <<"PBKDF2", passphrase, salt, DEFAULT_KDF.iterations, "SHA-256">>
    IN  [encKey   |-> [alg |-> "AES-GCM", raw |-> <<bits, 0, 32>>],
         indexKey |-> [alg |-> "HMAC", hash |-> DEFAULT_KDF.hmacHash,
                       raw |-> <<bits, 32, 64>>]]

\* PBKDF2-SHA-256 over (passphrase, salt, iterations), 512 bits; bytes [0,32)
\* are the AES-GCM key, bytes [32,64) the HMAC key with options.hmacHash.
deriveKeys(passphrase, salt, options) ==
    LET bits == <<"PBKDF2", passphrase, salt, options.iterations, "SHA-256">>
    IN  [encKey   |-> [alg |-> "AES-GCM", raw |-> <<bits, 0, 32>>],
         indexKey |-> [alg |-> "HMAC", hash |-> options.hmacHash,
                       raw |-> <<bits, 32, 64>>]]

\* JSON.stringify of an object of JSON values: every member is written as
\* its key and the literal of its value
JSON_stringify(value) == [k \in DOMAIN value |-> <<k, value[k]>>]

\* JSON.parse that loses one member of the object
parseLosingMember(text) ==
    [k \in DOMAIN text \ {CHOOSE k \in DOMAIN text : TRUE} |-> text[k][2]]

\* JSON.parse: every member read back from its literal
JSON_parse(text) == [k \in DOMAIN text |-> text[k][2]]

\* Buffer.from(bytes).toString("base64") / btoa: the bytes in groups of six
\* bits; the bits of the last character that encode no byte are written 0
bytesToBase64(bytes) == [bytes |-> bytes, spare |-> 0]

\* Buffer.from(base64, "base64") / atob: the bytes the characters encode; the
\* bits of the last character that encode no byte are dropped unread
base64ToBytes(base64) == base64.bytes

\* crypto.subtle.encrypt({name: "AES-GCM", iv}, encKey, plaintext): the
\* ciphertext and its tag, which binds the key, the iv and every bit of the
\* ciphertext (flipped counts the bits changed since encryption)
aesGcmEncrypt(iv, encKey, plaintext) ==
    [key |-> encKey, iv |-> iv, plaintext |-> plaintext, flipped |-> 0]

\* crypto.subtle.decrypt: rejects with an OperationError (ok = FALSE) when the
\* tag does not verify
aesGcmDecrypt(iv, encKey, ciphertext) ==
    IF ciphertext.key = encKey /\ ciphertext.iv = iv /\ ciphertext.flipped = 0
    THEN [ok |-> TRUE, plaintext |-> ciphertext.plaintext]
    ELSE [ok |-> FALSE, plaintext |-> None]

\* encryptJson with the 12 random bytes iv that getRandomValues drew
encryptJson(payload, encKey, iv) ==
    LET plaintext  == JSON_stringify(payload)
        ciphertext == aesGcmEncrypt(iv, encKey, plaintext)
    IN  [ct |-> bytesToBase64(ciphertext), iv |-> bytesToBase64(iv)]

\* decryptJson: throws (ok = FALSE) what crypto.subtle.decrypt throws
decryptJson(ct, iv, encKey) ==
    LET ciphertext == base64ToBytes(ct)
        ivBytes    == base64ToBytes(iv)
        opened     == aesGcmDecrypt(ivBytes, encKey, ciphertext)
    IN  IF opened.ok
        THEN [ok |-> TRUE, value |-> JSON_parse(opened.plaintext)]
        ELSE [ok |-> FALSE, value |-> None]

\* HMAC of the query under indexKey, base64url-encoded
computeToken(normalizedQuery, indexKey) ==
    [hmac |-> indexKey.hash, key |-> indexKey.raw, data |-> normalizedQuery]

\* encodePrefixDocId that keeps the first character only
encodePrefixDocIdFirst(prefixValue) == SubSeq(prefixValue, 1, 1)

encodePrefixDocId(prefixValue) == prefixValue

-----------------------------------------------------------------------------
(* The write path: seedDataset of scripts/seed.ts *)

\* arrayUnion that appends without looking for the element
appendAll(arr, ids) == arr \o ids

\* FieldValue.arrayUnion: the elements not yet in the array, appended in order
arrayUnion(arr, ids) ==
    LET fresh == SelectSeq([k \in 1..Len(ids) |-> k],
                           LAMBDA k : /\ ids[k] \notin Range(arr)
                                      /\ \A j \in 1..(k - 1) : ids[j] # ids[k])
    IN  arr \o [k \in 1..Len(fresh) |-> ids[fresh[k]]]

\* searchPrefixes over the name only
namePrefixes(record) == arrayUnion(<<>>, prefixes(record.name, MAX_PREFIX_LEN))

\* new Set([...prefixes(name), ...prefixes(email)]), in insertion order
searchPrefixes(record) ==
    arrayUnion(<<>>, prefixes(record.name, MAX_PREFIX_LEN)
                     \o prefixes(record.email, MAX_PREFIX_LEN))

\* the record seedDataset builds for person i, with the id doc() gave it
recordOf(people, idOf, i) ==
    [id |-> idOf[i], name |-> people[i].name, email |-> people[i].email]

\* the ids, in loop order, that the calls append(map, key, ref.id) of the for
\* loop leave under p's key: the id of a record once per occurrence of p
\* among its search prefixes (at most one per field, so at most two)
idsWithPrefix(people, idOf, p) ==
    LET occurrences(i) ==
            LET sp == searchPrefixes(recordOf(people, idOf, i))
            IN  Cardinality({k \in 1..Len(sp) : sp[k] = p})
        hit == SelectSeq([j \in 1..(2 * Len(people)) |-> j],
                         LAMBDA j : occurrences((j + 1) \div 2) >= 2 - (j % 2))
    IN  [k \in 1..Len(hit) |-> idOf[(hit[k] + 1) \div 2]]

\* the for loop of seedDataset over all of people: recordWrites,
\* indexUpdates (keyed by token) and plaintextUpdates (keyed by prefix)
seedLoop(people, idOf, keys) ==
    LET allPrefixes ==
            UNION {Range(searchPrefixes(recordOf(people, idOf, i))) : i \in 1..Len(people)}
        tokenOf(p) == computeToken(p, keys.indexKey)
    IN  [recordWrites |->
            [id \in {idOf[i] : i \in 1..Len(people)} |->
                LET i   == CHOOSE j \in 1..Len(people) : idOf[j] = id
                    enc == encryptJson(recordOf(people, idOf, i), keys.encKey, id)
                IN  [ct |-> enc.ct, iv |-> enc.iv]],
         indexUpdates |->
            [t \in {tokenOf(p) : p \in allPrefixes} |->
                idsWithPrefix(people, idOf, CHOOSE p \in allPrefixes : tokenOf(p) = t)],
         plaintextUpdates |->
            [p \in allPrefixes |-> idsWithPrefix(people, idOf, p)]]

\* flushBatches on a store: set(..., {merge: true}) of every record and of
\* every index document with arrayUnion of its ids
flushBatches(store, st) ==
    [records |-> st.recordWrites @@ store.records,
     index |->
        [k \in DOMAIN store.index \cup DOMAIN st.indexUpdates |->
            [recordIds |->
                arrayUnion(IF k \in DOMAIN store.index
                           THEN store.index[k].recordIds ELSE <<>>,
                           IF k \in DOMAIN st.indexUpdates
                           THEN st.indexUpdates[k] ELSE <<>>)]],
     plaintextIndex |->
        [k \in DOMAIN store.plaintextIndex \cup DOMAIN st.plaintextUpdates |->
            [recordIds |->
                arrayUnion(IF k \in DOMAIN store.plaintextIndex
                           THEN store.plaintextIndex[k].recordIds ELSE <<>>,
                           IF k \in DOMAIN st.plaintextUpdates
                           THEN st.plaintextUpdates[k] ELSE <<>>),
             prefix |-> k]]]

EmptyStore == [records |-> <<>>, index |-> <<>>, plaintextIndex |-> <<>>]

\* a completed seedDataset run on store
seedDataset(store, people, idOf, passphrase, salt, pqMode) ==
    flushBatches(store,
        seedLoop(people, idOf,
                 deriveKeys(passphrase, salt, IF pqMode THEN PQ_KDF ELSE DEFAULT_KDF)))

-----------------------------------------------------------------------------
(* The datasets of the model: the people the write path is given *)

\* decimal digits of n, as `${index}` prints it
RECURSIVE digits(_)
digits(n) ==
    LET d == <<"0", "1", "2", "3", "4", "5", "6", "7", "8", "9">>
    IN  IF n < 10 THEN <<d[n + 1]>> ELSE digits(n \div 10) \o <<d[(n % 10) + 1]>>

Ann == <<"A", "n", "n">>
Anna == <<"A", "n", "n", "a">>
Bob == <<"B", "o", "b">>
Al == <<"A", "l">>

\* `${first}...${index}@${domain}`.toLowerCase()
emailOf(first, i, domain) ==
    LET raw == first \o digits(i) \o <<"@">> \o domain
    IN  [k \in 1..Len(raw) |-> toLowerCase(raw[k])]

\* people-1k holds Ann, Anna and Bob; Bob's address is longer than the
\* longest indexed prefix.
SmallPeople ==
    << [name |-> Ann, email |-> emailOf(Ann, 0, <<"x">>)],
       [name |-> Anna, email |-> emailOf(Anna, 1, <<"x">>)],
       [name |-> Bob,
        email |-> emailOf(Bob, 2, <<"m", "a", "i", "l", "b", "o", "x", ".", "e", "x",
                                    "a", "m", "p", "l", "e", ".", "t", "e", "s", "t">>)] >>

\* people-100k repeats a few names, as the synthetic data of createPerson
\* does, so that a short prefix matches more than MAX_RESULT_FETCH records.
BigPerson(i) ==
    LET first == IF i = 7 THEN Al ELSE IF i = 25 THEN Bob
                 ELSE IF i % 2 = 0 THEN Ann ELSE Anna
    IN  [name |-> first, email |-> emailOf(first, i, <<"x">>)]

BigPeople == [i \in 1..BigCount |-> BigPerson(i - 1)]

DatasetIds == {"people-1k", "people-100k"}

People(id) == IF id = "people-1k" THEN SmallPeople ELSE BigPeople

\* doc() draws a fresh random id per record: the ids grow with the record's
\* position, or shrink with it
IdOrders == {"ascending", "descending"}

IdOf(people, order) ==
    [i \in 1..Len(people) |-> IF order = "ascending" THEN i ELSE Len(people) + 1 - i]

\* SEED_PASSPHRASE || "demo-passphrase"
SeedPassphrase == "demo-passphrase"

\* KDF_SALT || "encrypted-search-demo-salt"
SeedSalt == "encrypted-search-demo-salt"

\* the seedings the store may have been populated by
SeedConfigs ==
    { [datasetId |-> "people-1k", order |-> "ascending", pqMode |-> FALSE],
      [datasetId |-> "people-100k", order |-> "descending", pqMode |-> FALSE] }

\* the store after seedDataset has completed on an empty project
SeededStore(c) ==
    seedDataset(EmptyStore, People(c.datasetId), IdOf(People(c.datasetId), c.order),
                SeedPassphrase, SeedSalt, c.pqMode)

\* the dataset the session works on, and its collections in the store:
\* datasets/{datasetId}/records, /index and /plaintextIndex
datasetId == seeded.datasetId
records == db.records
index == db.index
plaintextIndex == db.plaintextIndex

-----------------------------------------------------------------------------
(* The read path: helpers of lib/benchmark.ts, lib/utils.ts, lib/cache.ts *)

DATASET_SIZES ==
    [id \in {"people-1k", "people-10k", "people-100k"} |->
        IF id = "people-1k" THEN 1000 ELSE IF id = "people-10k" THEN 10000 ELSE 100000]

getDatasetSize(id) == IF id \in DOMAIN DATASET_SIZES THEN DATASET_SIZES[id] ELSE 1000

\* chunk of lib/utils.ts
RECURSIVE chunk(_, _)
chunk(items, size) ==
    IF items = <<>> THEN <<>>
    ELSE <<Slice(items, size)>> \o chunk(SubSeq(items, Min(size, Len(items)) + 1, Len(items)), size)

\* the ids of a set of documents in documentId() order
orderByDocumentId(ids) ==
    IF ids = {} THEN <<>>
    ELSE LET last == CHOOSE a \in ids : \A b \in ids : b <= a
         IN  SelectSeq([i \in 1..last |-> i], LAMBDA i : i \in ids)

docOf(recs, id) == [id |-> id, ct |-> recs[id].ct, iv |-> recs[id].iv]

\* getDocs(query(records, where(documentId(), "in", group))): the documents
\* that exist among group, in documentId() order
getDocsIn(recs, group) ==
    LET found == orderByDocumentId(Range(group) \cap DOMAIN recs)
    IN  [k \in 1..Len(found) |-> docOf(recs, found[k])]

\* getDocs(query(records, orderBy(documentId()), startAfter(lastId), limit(pageSize)))
getDocsPage(recs, lastId, pageSize) ==
    LET after == orderByDocumentId({id \in DOMAIN recs : lastId = None \/ id > lastId[1]})
        page  == Slice(after, pageSize)
    IN  [k \in 1..Len(page) |-> docOf(recs, page[k])]

RECURSIVE fetchGroups(_, _)
fetchGroups(recs, groups) ==
    IF groups = <<>> THEN <<>>
    ELSE getDocsIn(recs, Head(groups)) \o fetchGroups(recs, Tail(groups))

\* fetchRecordsByIds: one getDocs per group of BATCH_SIZE ids, one after another
fetchRecordsByIds(recs, recordIds) ==
    [docs |-> fetchGroups(recs, chunk(recordIds, BATCH_SIZE)),
     reads |-> Len(chunk(recordIds, BATCH_SIZE))]

\* fetchRecordPage whose limit is one short of the page size
fetchShortPage(recs, pageSize) ==
    [docs |-> getDocsPage(recs, None, pageSize - 1), reads |-> 1]

fetchRecordPage(recs, pageSize) ==
    [docs |-> getDocsPage(recs, None, pageSize), reads |-> 1]

\* the while loop of fetchAllRecords that breaks after its first page
fetchFirstPage(recs, pageSize, lastId, docs, reads) ==
    [docs |-> docs \o getDocsPage(recs, lastId, pageSize), reads |-> reads + 1]

\* the while loop of fetchAllRecords
RECURSIVE fetchAllLoop(_, _, _, _, _)
fetchAllLoop(recs, pageSize, lastId, docs, reads) ==
    LET snapshot == getDocsPage(recs, lastId, pageSize)
        all      == docs \o snapshot
    IN  IF Len(snapshot) < pageSize THEN [docs |-> all, reads |-> reads + 1]
        ELSE IF snapshot = <<>> THEN [docs |-> all, reads |-> reads + 1]
        ELSE fetchAllLoop(recs, pageSize, Some(snapshot[Len(snapshot)].id), all, reads + 1)

fetchAllRecords(recs, pageSize) == fetchAllLoop(recs, pageSize, None, <<>>, 0)

\* decryptRecords that skips the documents that do not verify
decryptRecordsSkipping(docs, encKey) ==
    LET good == SelectSeq(docs, LAMBDA d : decryptJson(d.ct, d.iv, encKey).ok)
    IN  [ok |-> TRUE,
         records |-> [k \in 1..Len(good) |->
                        [decryptJson(good[k].ct, good[k].iv, encKey).value
                            EXCEPT !.id = good[k].id]]]

\* decryptRecords: decrypts one document after another; the first that does
\* not verify rejects the whole call
decryptRecords(docs, encKey) ==
    IF \E k \in 1..Len(docs) : ~decryptJson(docs[k].ct, docs[k].iv, encKey).ok
    THEN [ok |-> FALSE, records |-> <<>>]
    ELSE [ok |-> TRUE,
          records |-> [k \in 1..Len(docs) |->
                        [decryptJson(docs[k].ct, docs[k].iv, encKey).value
                            EXCEPT !.id = docs[k].id]]]

\* matchesQuery that looks at the name only
matchesNameOnly(record, normalizedQuery) ==
    startsWith(normalize(record.name), normalizedQuery)

matchesQuery(record, normalizedQuery) ==
    \/ startsWith(normalize(record.name), normalizedQuery)
    \/ startsWith(normalize(record.email), normalizedQuery)

scanRecords(recs, normalizedQuery) ==
    SelectSeq(recs, LAMBDA record : matchesQuery(record, normalizedQuery))

\* searchCache that gives up the records only to a run that holds the
\* passphrase and the KDF set of the writer
searchCacheKeyed(recs, normalizedQuery) ==
    IF run.options.passphrase = SeedPassphrase /\ run.options.pqMode = seeded.pqMode
    THEN SelectSeq(recs, LAMBDA record : matchesQuery(record, normalizedQuery))
    ELSE <<>>

\* searchCache of lib/cache.ts
searchCache(recs, normalizedQuery) ==
    SelectSeq(recs, LAMBDA record : matchesQuery(record, normalizedQuery))

\* (doc.data()?.recordIds as string[]) ?? []
recordIdsOf(collection, key) ==
    IF key \in DOMAIN collection THEN collection[key].recordIds ELSE <<>>

\* cappedIdsOf without the cap: every id of the bucket is requested
uncappedIdsOf(recordIds) == recordIds

cappedIdsOf(recordIds) ==
    IF Len(recordIds) > MAX_RESULT_FETCH THEN Slice(recordIds, MAX_RESULT_FETCH)
    ELSE recordIds

\* indexSampleNote that never writes a note
noSampleNote(totalCount) == None

\* `Fetched first ${MAX_RESULT_FETCH} of ${totalCount} matches due to synthetic data repetition.`
indexSampleNote(totalCount) ==
    IF totalCount > MAX_RESULT_FETCH
    THEN Some(<<"Fetched first ", MAX_RESULT_FETCH, " of ", totalCount,
                " matches due to synthetic data repetition.">>)
    ELSE None

\* hitsOf without the slice
allHits(recs) == recs

hitsOf(recs) == Slice(recs, MAX_HITS)

-----------------------------------------------------------------------------
(* Inputs of a run *)

Modes == {"blindIndex", "decryptScan", "clientCache", "plaintextIndex"}

MODE_ORDER == <<"blindIndex", "decryptScan", "clientCache", "plaintextIndex">>

\* the selections of modes a run is started with
ModeLists ==
    { <<>>,
      <<"clientCache">>,
      <<"blindIndex", "decryptScan">>, <<"plaintextIndex", "decryptScan">>,
      <<"clientCache", "clientCache">>, <<"decryptScan", "clientCache">>,
      <<"blindIndex", "plaintextIndex">> }

\* the raw queries a run is started with: empty, blank, one letter, a query
\* to normalize, the start of an address, one without a match, and one of
\* 21 characters
Queries ==
    { <<>>,
      <<" ", "\t">>,
      <<"a">>,
      <<" ", "A", "N", " ">>,
      <<"b", "o", "b", "2">>,
      <<"z">>,
      <<"b", "o", "b", "2", "@", "m", "a", "i", "l", "b", "o", "x", ".", "e", "x",
        "a", "m", "p", "l", "e", ".">> }

\* NEXT_PUBLIC_DEMO_PASSPHRASE in the environment of the page: unset, or set
PassphraseEnv == {None, Some("other-passphrase")}

\* process.env.NEXT_PUBLIC_DEMO_PASSPHRASE || "demo-passphrase"
demoPassphrase(env) == IF env = None THEN "demo-passphrase" ELSE env[1]

Passphrases == {demoPassphrase(env) : env \in PassphraseEnv}

\* what one awaited operation of a run takes on the clock of now(): less
\* than its resolution, or one unit
Ticks == {0, 1}

\* the pqMode option of runBenchmark (runOnce of app/page.tsx passes false)
PqModes == BOOLEAN

\* the passphrase configuration and KDF set a run is started with
Credentials ==
    {c \in [env : PassphraseEnv, pqMode : PqModes] : c.pqMode => c.env = None}

NoRun ==
    [options |-> [query |-> <<>>, normalizedQuery |-> <<>>, modes |-> <<>>,
                  passphrase |-> "", pqMode |-> FALSE],
     keys |-> None, tick |-> 0, env |-> None]

NoTrace ==
    [derived |-> 0, storeReads |-> 0, cacheReads |-> 0, cacheWrites |-> 0,
     failure |-> "none", failedMode |-> 0, cacheReadFailed |-> FALSE]

-----------------------------------------------------------------------------
(* Initial state: the dataset has been seeded, no cache entry, no run *)

Init ==
    /\ pc = "idle"
    /\ run = NoRun
    /\ modeIdx = 0
    /\ results = <<>>
    /\ audit = <<>>
    /\ trace = NoTrace
    /\ prevCache = None
    /\ probe = None
    /\ cache = [d \in DatasetIds |-> None]
    /\ seeded \in SeedConfigs
    /\ db = SeededStore(seeded)

-----------------------------------------------------------------------------
(* runBenchmark *)

\* lines 146-156: normalize, the empty-query return, key derivation
StartRun ==
    /\ pc = "idle"
    /\ \E rawQuery \in Queries, modes \in ModeLists, cred \in Credentials,
          tick \in Ticks :
        LET passphrase == demoPassphrase(cred.env)
            pqMode == cred.pqMode
            normalizedQuery == normalize(rawQuery)
            options == [query |-> rawQuery, normalizedQuery |-> normalizedQuery,
                        modes |-> modes, passphrase |-> passphrase, pqMode |-> pqMode]
        IN  IF normalizedQuery = <<>>
            THEN /\ run' = [options |-> options, keys |-> None, tick |-> tick,
                            env |-> cred.env]
                 /\ pc' = "done"
                 /\ trace' = NoTrace
            ELSE /\ run' = [options |-> options,
                            keys |-> Some(deriveKeys(passphrase, getSalt,
                                                     IF pqMode THEN PQ_KDF ELSE DEFAULT_KDF)),
                            tick |-> tick, env |-> cred.env]
                 /\ pc' = IF modes = <<>> THEN "done" ELSE "running"
                 /\ trace' = [NoTrace EXCEPT !.derived = 1]
    /\ modeIdx' = 1
    /\ results' = <<>>
    /\ audit' = <<>>
    /\ UNCHANGED <<probe, seeded, db, cache, prevCache>>

encKey == run.keys[1].encKey

\* the index key of a run whose derivation mixes in the time of the call
indexKeyTimed == [run.keys[1].indexKey EXCEPT !.raw = <<@, run.tick>>]

indexKey == run.keys[1].indexKey

AtMode(mode) ==
    /\ pc = "running"
    /\ modeIdx <= Len(run.options.modes)
    /\ run.options.modes[modeIdx] = mode

\* now() - start over a span in which ops operations were awaited
elapsed(ops) == ops * run.tick

\* results.push(result); continue -- and the return after the last mode
Push(result, entry, storeReads, cacheReads, cacheWrites) ==
    /\ results' = Append(results, result)
    /\ audit' = Append(audit, entry)
    /\ trace' = [trace EXCEPT !.storeReads = @ + storeReads,
                              !.cacheReads = @ + cacheReads,
                              !.cacheWrites = @ + cacheWrites]
    /\ modeIdx' = modeIdx + 1
    /\ pc' = IF modeIdx = Len(run.options.modes) THEN "done" ELSE "running"

\* an awaited call rejects: runBenchmark has no try/catch, so its promise
\* rejects and the results array is dropped with it
Reject(kind, storeReads, cacheReads, cacheWrites, readFailed) ==
    /\ pc' = "failed"
    /\ results' = <<>>
    /\ audit' = <<>>
    /\ trace' = [trace EXCEPT !.storeReads = @ + storeReads,
                              !.cacheReads = @ + cacheReads,
                              !.cacheWrites = @ + cacheWrites,
                              !.failure = kind,
                              !.failedMode = modeIdx,
                              !.cacheReadFailed = readFailed]
    /\ UNCHANGED modeIdx

\* a rejection in a mode that has not read the cache
Throw(kind, storeReads, cacheReads, cacheWrites) ==
    Reject(kind, storeReads, cacheReads, cacheWrites, FALSE)

indexResult(mode, indexMs, fetchMs, decryptMs, totalCount, sampleNote, recs) ==
    [mode |-> mode,
     totalMs |-> indexMs + fetchMs + decryptMs,
     breakdown |-> [indexMs |-> indexMs, fetchMs |-> fetchMs, decryptMs |-> decryptMs,
                    scanMs |-> 0, cacheBuildMs |-> None],
     resultCount |-> totalCount,
     sampleNote |-> sampleNote,
     hits |-> hitsOf(recs)]

\* lines 164-189 and 199-224: cap, fetch, decrypt and push, given the bucket
\* read by the indexOps awaited operations of the index phase
IndexMode(mode, recordIds, indexOps) ==
    LET totalCount == Len(recordIds)
        cappedIds  == cappedIdsOf(recordIds)
        sampleNote == indexSampleNote(totalCount)
        fetched    == fetchRecordsByIds(records, cappedIds)
        decrypted  == decryptRecords(fetched.docs, encKey)
    IN  \/ \E k \in 1..(1 + fetched.reads) : Throw("StoreUnavailable", k, 0, 0)
        \/ /\ ~decrypted.ok
           /\ Throw("AuthenticationFailure", 1 + fetched.reads, 0, 0)
        \/ /\ decrypted.ok
           /\ Push(indexResult(mode, elapsed(indexOps), elapsed(fetched.reads),
                               elapsed(Len(fetched.docs)), totalCount, sampleNote,
                               decrypted.records),
                   [path |-> "index", requested |-> cappedIds,
                    reads |-> 1 + fetched.reads, fetched |-> Len(fetched.docs),
                    sequence |-> [k \in 1..Len(fetched.docs) |-> fetched.docs[k].id],
                    prev |-> None, readFailed |-> FALSE],
                   1 + fetched.reads, 0, 0)

BlindIndex ==
    /\ AtMode("blindIndex")
    /\ IndexMode("blindIndex",
                 recordIdsOf(index, computeToken(run.options.normalizedQuery, indexKey)),
                 2)
    /\ UNCHANGED <<probe, seeded, db, cache, run, prevCache>>

PlaintextIndex ==
    /\ AtMode("plaintextIndex")
    /\ IndexMode("plaintextIndex",
                 recordIdsOf(plaintextIndex, encodePrefixDocId(run.options.normalizedQuery)),
                 1)
    /\ UNCHANGED <<probe, seeded, db, cache, run, prevCache>>

scanResult(fetchMs, decryptMs, scanMs, matches) ==
    [mode |-> "decryptScan",
     totalMs |-> fetchMs + decryptMs + scanMs,
     breakdown |-> [indexMs |-> 0, fetchMs |-> fetchMs, decryptMs |-> decryptMs,
                    scanMs |-> scanMs, cacheBuildMs |-> None],
     resultCount |-> Len(matches),
     sampleNote |-> None,
     hits |-> hitsOf(matches)]

DecryptScan ==
    /\ AtMode("decryptScan")
    /\ LET fetched   == fetchAllRecords(records, FULL_SCAN_PAGE_SIZE)
           decrypted == decryptRecords(fetched.docs, encKey)
           matches   == scanRecords(decrypted.records, run.options.normalizedQuery)
       IN  \/ \E k \in 1..fetched.reads : Throw("StoreUnavailable", k, 0, 0)
           \/ /\ ~decrypted.ok
              /\ Throw("AuthenticationFailure", fetched.reads, 0, 0)
           \/ /\ decrypted.ok
              /\ Push(scanResult(elapsed(fetched.reads), elapsed(Len(fetched.docs)),
                                 elapsed(1), matches),
                      [path |-> "scan", requested |-> <<>>,
                       reads |-> fetched.reads, fetched |-> Len(fetched.docs),
                       sequence |-> [k \in 1..Len(matches) |-> matches[k].id],
                       prev |-> None, readFailed |-> FALSE],
                      fetched.reads, 0, 0)
    /\ UNCHANGED <<probe, seeded, db, cache, run, prevCache>>

\* getCachedDataset that returns the entry though the IndexedDB request failed
getCachedDatasetUnfailing(id, readFails) == cache[id]

\* getCachedDataset of lib/cache.ts: the stored entry, or null when there is
\* none or when the IndexedDB request fails (the catch returns null)
getCachedDataset(id, readFails) == IF readFails THEN None ELSE cache[id]

\* cacheResult whose total adds up every field of the breakdown
cacheResultSummed(totalMs, fetchMs, decryptMs, scanMs, cacheBuildMs, sampleNote, matches) ==
    [mode |-> "clientCache",
     totalMs |-> fetchMs + decryptMs + scanMs
                 + (IF cacheBuildMs = None THEN 0 ELSE cacheBuildMs[1]),
     breakdown |-> [indexMs |-> 0, fetchMs |-> fetchMs, decryptMs |-> decryptMs,
                    scanMs |-> scanMs, cacheBuildMs |-> cacheBuildMs],
     resultCount |-> Len(matches),
     sampleNote |-> sampleNote,
     hits |-> hitsOf(matches)]

cacheResult(totalMs, fetchMs, decryptMs, scanMs, cacheBuildMs, sampleNote, matches) ==
    [mode |-> "clientCache",
     totalMs |-> totalMs,
     breakdown |-> [indexMs |-> 0, fetchMs |-> fetchMs, decryptMs |-> decryptMs,
                    scanMs |-> scanMs, cacheBuildMs |-> cacheBuildMs],
     resultCount |-> Len(matches),
     sampleNote |-> sampleNote,
     hits |-> hitsOf(matches)]

\* cacheEntry that keeps the hits only
cacheEntryOfHits(id, recs, buildMs) ==
    [datasetId |-> id, records |-> hitsOf(recs), recordCount |-> Len(hitsOf(recs)),
     cap |-> CACHE_CAP, buildMs |-> buildMs]

\* the CachedDataset handed to setCachedDataset (builtAt is never read)
cacheEntry(id, recs, buildMs) ==
    [datasetId |-> id, records |-> recs, recordCount |-> Len(recs),
     cap |-> CACHE_CAP, buildMs |-> buildMs]

\* `Cache capped at ${CACHE_CAP} records.`
coldSampleNote(datasetSize) ==
    IF datasetSize > CACHE_CAP
    THEN Some(<<"Cache capped at ", CACHE_CAP, " records.">>)
    ELSE None

\* `Cache has ${cached.recordCount} records from a larger dataset.`
warmSampleNote(datasetSize, recordCount) ==
    IF datasetSize > recordCount
    THEN Some(<<"Cache has ", recordCount, " records from a larger dataset.">>)
    ELSE None

\* lines 258-279 and 288-310: no cache entry was read (there is none, or
\* the read failed), the cache is built
ClientCacheCold(readFails) ==
    LET datasetSize  == getDatasetSize(datasetId)
        fetched      == fetchRecordPage(records, Min(datasetSize, CACHE_CAP))
        decrypted    == decryptRecords(fetched.docs, encKey)
        fetchMs      == elapsed(fetched.reads)
        decryptMs    == elapsed(Len(fetched.docs))
        cacheBuildMs == fetchMs + decryptMs
        matches      == searchCache(decrypted.records, run.options.normalizedQuery)
        scanMs       == elapsed(1)
        entry        == cacheEntry(datasetId, decrypted.records, cacheBuildMs)
    IN  \/ /\ Reject("StoreUnavailable", 1, 1, 0, readFails)
           /\ UNCHANGED <<cache, prevCache>>
        \/ /\ ~decrypted.ok
           /\ Reject("AuthenticationFailure", 1, 1, 0, readFails)
           /\ UNCHANGED <<cache, prevCache>>
        \/ /\ decrypted.ok
           /\ Reject("CacheWriteFailed", 1, 1, 1, readFails)
           /\ UNCHANGED <<cache, prevCache>>
        \/ /\ decrypted.ok
           /\ cache' = [cache EXCEPT ![datasetId] = Some(entry)]
           /\ prevCache' = Some([query |-> run.options.normalizedQuery,
                                 resultCount |-> Len(matches)])
           /\ Push(cacheResult(cacheBuildMs + scanMs, fetchMs, decryptMs, scanMs,
                               Some(cacheBuildMs), coldSampleNote(datasetSize), matches),
                   [path |-> "cold", requested |-> <<>>,
                    reads |-> fetched.reads, fetched |-> Len(fetched.docs),
                    sequence |-> [k \in 1..Len(matches) |-> matches[k].id],
                    prev |-> prevCache, readFailed |-> readFails],
                   1, 1, 1)

\* a clientCache branch that, having read the entry, persists it again with
\* the time of this read as its build time
ClientCacheRewriting(cached, readFails) ==
    LET datasetSize == getDatasetSize(datasetId)
        cacheReadMs == elapsed(1)
        matches     == searchCache(cached.records, run.options.normalizedQuery)
        scanMs      == elapsed(1)
    IN  /\ prevCache' = Some([query |-> run.options.normalizedQuery,
                              resultCount |-> Len(matches)])
        /\ Push(cacheResult(cacheReadMs + scanMs, cacheReadMs, 0, scanMs,
                            Some(cached.buildMs),
                            warmSampleNote(datasetSize, cached.recordCount), matches),
                [path |-> "warm", requested |-> <<>>,
                 reads |-> 0, fetched |-> Len(cached.records),
                 sequence |-> [k \in 1..Len(matches) |-> matches[k].id],
                 prev |-> prevCache, readFailed |-> readFails],
                0, 1, 1)
        /\ cache' = [cache EXCEPT ![datasetId] =
                        Some(cacheEntry(datasetId, cached.records, cacheReadMs + 7))]

\* a clientCache branch that reads the store and decrypts although the cache
\* entry was read
ClientCacheRebuilt(cached, readFails) == ClientCacheCold(readFails)

\* lines 280-310: the cache entry was read, no store access and no decryption
ClientCacheWarm(cached, readFails) ==
    LET datasetSize == getDatasetSize(datasetId)
        cacheReadMs == elapsed(1)
        matches     == searchCache(cached.records, run.options.normalizedQuery)
        scanMs      == elapsed(1)
    IN  /\ prevCache' = Some([query |-> run.options.normalizedQuery,
                              resultCount |-> Len(matches)])
        /\ Push(cacheResult(cacheReadMs + scanMs, cacheReadMs, 0, scanMs,
                            Some(cached.buildMs),
                            warmSampleNote(datasetSize, cached.recordCount), matches),
                [path |-> "warm", requested |-> <<>>,
                 reads |-> 0, fetched |-> Len(cached.records),
                 sequence |-> [k \in 1..Len(matches) |-> matches[k].id],
                 prev |-> prevCache, readFailed |-> readFails],
                0, 1, 0)
        /\ UNCHANGED cache

ClientCache ==
    /\ AtMode("clientCache")
    /\ \E readFails \in BOOLEAN :
        LET cached == getCachedDataset(datasetId, readFails)
        IN  IF cached = None THEN ClientCacheCold(readFails) 
            ELSE ClientCacheWarm(cached[1], readFails)
    /\ UNCHANGED <<probe, seeded, db, run>>

\* clearCachedDataset of lib/cache.ts, between runs
ClearCache ==
    /\ pc = "idle"
    /\ cache[datasetId] # None
    /\ cache' = [cache EXCEPT ![datasetId] = None]
    /\ prevCache' = None
    /\ UNCHANGED <<probe, seeded, db, pc, run, modeIdx, results, audit, trace>>

\* the promise of runBenchmark has settled and its caller has taken the
\* outcome: the next run can start
Settle ==
    /\ pc \in {"done", "failed"}
    /\ pc' = "idle"
    /\ run' = NoRun
    /\ modeIdx' = 0
    /\ results' = <<>>
    /\ audit' = <<>>
    /\ trace' = NoTrace
    /\ UNCHANGED <<probe, seeded, db, cache, prevCache>>

Next ==
    \/ StartRun
    \/ BlindIndex
    \/ PlaintextIndex
    \/ DecryptScan
    \/ ClientCache
    \/ ClearCache
    \/ Settle

Spec == Init /\ [][Next]_vars

-----------------------------------------------------------------------------
(* Properties of the results of a run *)

IndexModes == {"blindIndex", "plaintextIndex"}

\* the bucket the index holds for the query of the current run
bucketOf(mode) ==
    IF mode = "blindIndex"
    THEN recordIdsOf(index, computeToken(run.options.normalizedQuery, indexKey))
    ELSE recordIdsOf(plaintextIndex, encodePrefixDocId(run.options.normalizedQuery))

\* the ids of the records of the store whose plaintext matches the query
storeMatches ==
    {id \in DOMAIN records :
        matchesQuery(JSON_parse(base64ToBytes(records[id].ct).plaintext),
                     run.options.normalizedQuery)}

idsOf(recs) == {recs[k].id : k \in 1..Len(recs)}

\* the sum of the four phases every breakdown reports
phaseSum(r) ==
    r.breakdown.indexMs + r.breakdown.fetchMs + r.breakdown.decryptMs + r.breakdown.scanMs

\* C1: in blindIndex and plaintextIndex, a bucket of n > MAX_RESULT_FETCH ids
\* has only its first MAX_RESULT_FETCH ids, in bucket order, requested from the
\* record store, and resultCount is n, not the number of records fetched.
C1_CappedFetch ==
    \A i \in DOMAIN results :
        (results[i].mode \in IndexModes
            /\ Len(bucketOf(results[i].mode)) > MAX_RESULT_FETCH)
        => /\ audit[i].requested = SubSeq(bucketOf(results[i].mode), 1, MAX_RESULT_FETCH)
           /\ audit[i].fetched = MAX_RESULT_FETCH
           /\ results[i].resultCount = Len(bucketOf(results[i].mode))

\* a blindIndex result over a bucket larger than the cap
C1_Witness ==
    \E i \in DOMAIN results :
        /\ results[i].mode = "blindIndex"
        /\ Len(bucketOf("blindIndex")) > MAX_RESULT_FETCH
        /\ results[i].resultCount > audit[i].fetched

\* C2: a result whose resultCount exceeds the number of records its mode
\* fetched and decrypted carries a sampleNote, and the note is not empty.
C2_SampleNote ==
    \A i \in DOMAIN results :
        results[i].resultCount > audit[i].fetched
        => /\ results[i].sampleNote # None
           /\ results[i].sampleNote[1] # <<>>

\* a plaintextIndex result that counts more records than it fetched
C2_Witness ==
    \E i \in DOMAIN results :
        /\ results[i].mode = "plaintextIndex"
        /\ results[i].resultCount > audit[i].fetched
        /\ results[i].sampleNote # None

\* C3: hits has at most MAX_HITS records and is the leading segment of the
\* sequence of records the mode fetched or matched, in the order of the fetch.
C3_HitsPrefix ==
    \A i \in DOMAIN results :
        /\ Len(results[i].hits) <= MAX_HITS
        /\ Len(results[i].hits) = Min(MAX_HITS, Len(audit[i].sequence))
        /\ \A k \in 1..Len(results[i].hits) :
              results[i].hits[k].id = audit[i].sequence[k]

\* an index result whose fetch returned more than MAX_HITS records, in an
\* order that is not the bucket's
C3_Witness ==
    \E i \in DOMAIN results :
        /\ results[i].mode \in IndexModes
        /\ Len(audit[i].sequence) > MAX_HITS
        /\ audit[i].sequence # audit[i].requested
        /\ Len(results[i].hits) = MAX_HITS

\* C4 as amended: totalMs is indexMs + fetchMs + decryptMs + scanMs for
\* blindIndex, plaintextIndex, decryptScan and a clientCache result served from
\* the cache (cacheBuildMs is reported but not added); for a clientCache result
\* that built the cache, totalMs is cacheBuildMs + scanMs, and cacheBuildMs
\* covers the fetch and the decryption, which are not added again.
C4_TotalOfPhases ==
    \A i \in DOMAIN results :
        IF audit[i].path = "cold"
        THEN /\ results[i].breakdown.cacheBuildMs # None
             /\ results[i].totalMs =
                    results[i].breakdown.cacheBuildMs[1] + results[i].breakdown.scanMs
             /\ results[i].breakdown.cacheBuildMs[1] >=
                    results[i].breakdown.fetchMs + results[i].breakdown.decryptMs
             /\ results[i].breakdown.indexMs = 0
        ELSE results[i].totalMs = phaseSum(results[i])

\* a clientCache result that built the cache in measurable time
C4_Witness ==
    \E i \in DOMAIN results :
        /\ audit[i].path = "cold"
        /\ results[i].breakdown.cacheBuildMs # None
        /\ results[i].breakdown.cacheBuildMs[1] > 0
        /\ results[i].totalMs < phaseSum(results[i]) + results[i].breakdown.cacheBuildMs[1]

\* C4 as stated: totalMs is the sum of every field of the breakdown,
\* cacheBuildMs included when present.
C4_AsStated ==
    \A i \in DOMAIN results :
        results[i].totalMs =
            phaseSum(results[i])
            + (IF results[i].breakdown.cacheBuildMs = None THEN 0
               ELSE results[i].breakdown.cacheBuildMs[1])

\* C5 as amended: a clientCache result that read the cache entry left by an
\* earlier clientCache result reports decryptMs = 0, reads nothing from the
\* store, reports as fetchMs the time of the cache read (totalMs = fetchMs +
\* scanMs), and has the resultCount of the earlier result when the query is
\* the same.
C5_WarmReuse ==
    \A i \in DOMAIN results :
        audit[i].path = "warm"
        => /\ audit[i].prev # None
           /\ results[i].breakdown.decryptMs = 0
           /\ audit[i].reads = 0
           /\ results[i].breakdown.fetchMs = elapsed(1)
           /\ results[i].totalMs = results[i].breakdown.fetchMs + results[i].breakdown.scanMs
           /\ (audit[i].prev[1].query = run.options.normalizedQuery
                => results[i].resultCount = audit[i].prev[1].resultCount)

\* the second clientCache result of one run, served from the cache that the
\* first one built, with the same count of matches
C5_Witness ==
    /\ Len(results) = 2
    /\ audit[1].path = "cold"
    /\ audit[2].path = "warm"
    /\ results[2].resultCount = results[1].resultCount
    /\ results[2].resultCount > MAX_HITS

\* C5 as stated: a clientCache result that comes after another one, with no
\* clear in between, reports fetchMs = 0 and decryptMs = 0 and the same
\* resultCount for the same query.
C5_AsStated ==
    \A i \in DOMAIN results :
        (results[i].mode = "clientCache" /\ audit[i].prev # None)
        => /\ results[i].breakdown.fetchMs = 0
           /\ results[i].breakdown.decryptMs = 0
           /\ (audit[i].prev[1].query = run.options.normalizedQuery
                => results[i].resultCount = audit[i].prev[1].resultCount)

\* C6 as stated: when a store read fails in one mode of a run, every other
\* selected mode of the run has delivered its result.
C6_SiblingsDeliver ==
    (pc = "failed" /\ trace.failure = "StoreUnavailable")
    => \A j \in 1..Len(run.options.modes) :
          j # trace.failedMode
          => \E i \in DOMAIN results : results[i].mode = run.options.modes[j]

\* C7: a result exists only if every document its mode fetched verifies under
\* the key of the run; a result of a scan over the store counts every record
\* of the store that matches.
C7_NoSilentDrop ==
    \A i \in DOMAIN results :
        /\ audit[i].path = "index"
           => \A id \in Range(audit[i].requested) \cap DOMAIN records :
                 decryptJson(records[id].ct, records[id].iv, encKey).ok
        /\ audit[i].path \in {"scan", "cold"}
           => /\ \A id \in DOMAIN records :
                    decryptJson(records[id].ct, records[id].iv, encKey).ok
              /\ results[i].resultCount = Cardinality(storeMatches)

\* a run whose key does not open the records has failed in its first mode
C7_Witness ==
    /\ pc = "failed"
    /\ trace.failure = "AuthenticationFailure"
    /\ run.options.passphrase # SeedPassphrase
    /\ results = <<>>

\* C8: a run whose raw query is empty or whitespace only completes without a
\* failure, derives no key, reads nothing from the store, neither reads nor
\* writes the cache, and delivers no result for any mode.
C8_EmptyQuery ==
    (pc # "idle" /\ \A k \in 1..Len(run.options.query) : IsSpace(run.options.query[k]))
    => /\ pc = "done"
       /\ run.keys = None
       /\ trace = NoTrace
       /\ results = <<>>

\* a completed run over a whitespace-only query with modes selected
C8_Witness ==
    /\ pc = "done"
    /\ run.options.query # <<>>
    /\ \A k \in 1..Len(run.options.query) : IsSpace(run.options.query[k])
    /\ run.options.modes # <<>>
    /\ trace.derived = 0

C10_BlindEqualsScan ==
    \A i, j \in DOMAIN results :
        (results[i].mode = "blindIndex"
            /\ results[j].mode = "decryptScan"
            /\ results[i].resultCount <= MAX_RESULT_FETCH
            /\ Len(run.options.normalizedQuery) \in 1..MAX_PREFIX_LEN)
        => /\ results[i].resultCount = results[j].resultCount
           /\ Range(audit[i].sequence) = Range(audit[j].sequence)

\* records {Ann, Anna, Bob} and the query "an": both modes return Ann and Anna
C10_Witness ==
    /\ Len(results) = 2
    /\ results[1].mode = "blindIndex"
    /\ results[2].mode = "decryptScan"
    /\ run.options.normalizedQuery = <<"a", "n">>
    /\ results[1].resultCount = 2
    /\ results[2].resultCount = 2
    /\ {results[1].hits[k].name : k \in 1..Len(results[1].hits)} = {Ann, Anna}
    /\ {results[2].hits[k].name : k \in 1..Len(results[2].hits)} = {Ann, Anna}

\* C10 as stated: the same for a query of any length.
C10_AsStated ==
    \A i, j \in DOMAIN results :
        (results[i].mode = "blindIndex"
            /\ results[j].mode = "decryptScan"
            /\ results[i].resultCount <= MAX_RESULT_FETCH
            /\ run.options.normalizedQuery # <<>>)
        => /\ results[i].resultCount = results[j].resultCount
           /\ Range(audit[i].sequence) = Range(audit[j].sequence)

-----------------------------------------------------------------------------
(* Properties of keys, configuration and the cache read *)

\* the run reads with the passphrase and salt of the seeding but the other
\* KDF parameter set
kdfMismatch ==
    /\ run.options.passphrase = SeedPassphrase
    /\ getSalt = SeedSalt
    /\ run.options.pqMode # seeded.pqMode

\* C11: when the store was seeded with one KDF parameter set and the run
\* derives its keys with the other (same passphrase and salt), blindIndex
\* finds no bucket: its result has resultCount 0 and no hits, it requests and
\* fetches no record, reads the index document only, and the mode does not
\* fail on the mismatch.
C11_KdfMismatch ==
    /\ \A i \in DOMAIN results :
         (results[i].mode = "blindIndex" /\ kdfMismatch)
         => /\ results[i].resultCount = 0
            /\ results[i].hits = <<>>
            /\ results[i].sampleNote = None
            /\ audit[i].requested = <<>>
            /\ audit[i].fetched = 0
            /\ audit[i].reads = 1
    /\ (pc = "failed" /\ kdfMismatch
            /\ run.options.modes[trace.failedMode] = "blindIndex")
       => trace.failure = "StoreUnavailable"

\* a PQ reader asks the default-KDF store for "a", which the plaintext index
\* holds a bucket for, and blindIndex delivers an empty result
C11_Witness ==
    /\ kdfMismatch
    /\ run.options.normalizedQuery = <<"a">>
    /\ recordIdsOf(plaintextIndex, <<"a">>) # <<>>
    /\ Len(results) = 1
    /\ results[1].mode = "blindIndex"
    /\ results[1].resultCount = 0

storedRecord(id) == JSON_parse(base64ToBytes(records[id].ct).plaintext)

\* the prefixes of length 1..MAX_PREFIX_LEN of a normalized field
prefixSetOf(field) ==
    {SubSeq(normalize(field), 1, k) : k \in 1..Min(MAX_PREFIX_LEN, Len(normalize(field)))}

prefixSet(r) == prefixSetOf(r.name) \cup prefixSetOf(r.email)

occurrencesIn(ids, id) == Cardinality({k \in 1..Len(ids) : ids[k] = id})

\* the index key of the seeding
seedIndexKey ==
    deriveKeys(SeedPassphrase, SeedSalt,
               IF seeded.pqMode THEN PQ_KDF ELSE DEFAULT_KDF).indexKey

\* C17: after seeding, for every record r and every prefix p of length 1 to
\* MAX_PREFIX_LEN of r's normalized name or email, r's id occurs exactly once
\* in the blind bucket of token(p) and exactly once in the plaintext bucket of
\* p; and no bucket holds an id of a record that lacks its prefix.
C17_SeededIndex ==
    (pc = "idle" /\ cache[datasetId] = None)
    => /\ \A id \in DOMAIN records : \A p \in prefixSet(storedRecord(id)) :
            /\ occurrencesIn(recordIdsOf(index, computeToken(p, seedIndexKey)), id) = 1
            /\ occurrencesIn(recordIdsOf(plaintextIndex, encodePrefixDocId(p)), id) = 1
       /\ \A p \in DOMAIN plaintextIndex : \A id \in Range(plaintextIndex[p].recordIds) :
            /\ id \in DOMAIN records
            /\ p \in prefixSet(storedRecord(id))
       /\ \A t \in DOMAIN index : \A id \in Range(index[t].recordIds) :
            /\ id \in DOMAIN records
            /\ \E p \in prefixSet(storedRecord(id)) : computeToken(p, seedIndexKey) = t

\* the seeded store holds a record whose name and address share prefixes
\* ("Ann", "ann0@x") and one whose address is longer than MAX_PREFIX_LEN
C17_Witness ==
    /\ pc = "idle"
    /\ cache[datasetId] = None
    /\ \E id \in DOMAIN records :
         /\ storedRecord(id).name = Ann
         /\ startsWith(storedRecord(id).email, <<"a", "n", "n">>)
         /\ occurrencesIn(recordIdsOf(plaintextIndex, <<"a", "n", "n">>), id) = 1
    /\ \E id \in DOMAIN records :
         /\ Len(storedRecord(id).email) > MAX_PREFIX_LEN
         /\ SubSeq(storedRecord(id).email, 1, MAX_PREFIX_LEN) \in DOMAIN plaintextIndex
         /\ SubSeq(storedRecord(id).email, 1, MAX_PREFIX_LEN + 1) \notin DOMAIN plaintextIndex

\* C16: a run started without a configured passphrase fails with a
\* configuration error before any store read or cache access, and no mode is
\* executed.
C16_ConfigurationError ==
    (pc # "idle" /\ run.env = None /\ run.options.normalizedQuery # <<>>)
    => /\ pc = "failed"
       /\ trace.failure = "ConfigurationError"
       /\ trace.storeReads = 0
       /\ trace.cacheReads = 0
       /\ trace.cacheWrites = 0
       /\ results = <<>>

\* the run reads with the passphrase, salt and KDF parameter set of the seeding
sameCredentials ==
    /\ run.options.passphrase = SeedPassphrase
    /\ getSalt = SeedSalt
    /\ run.options.pqMode = seeded.pqMode

-----------------------------------------------------------------------------
(* Order of the results of a run *)

\* position of a mode in MODE_ORDER
modeRank(mode) == CHOOSE k \in 1..Len(MODE_ORDER) : MODE_ORDER[k] = mode

\* buildCsvRows of app/page.tsx: one row per result, in the order of results
\* (the mode column of each row)
buildCsvRows(res) == [i \in 1..Len(res) |-> res[i].mode]

\* resultsByMode of app/page.tsx, which the tables and charts render: the
\* results keyed by mode (a later result replaces an earlier), read in MODE_ORDER
resultsByMode(res) ==
    LET present == SelectSeq(MODE_ORDER, LAMBDA m : \E i \in 1..Len(res) : res[i].mode = m)
    IN  [k \in 1..Len(present) |->
            res[CHOOSE i \in 1..Len(res) :
                    /\ res[i].mode = present[k]
                    /\ \A j \in (i + 1)..Len(res) : res[j].mode # present[k]]]

\* C13: whatever the order the modes were selected in, the results a run
\* returns, and the rows exported from them, are in the canonical order
\* blindIndex, decryptScan, clientCache, plaintextIndex.
C13_CanonicalOrder ==
    pc = "done"
    => /\ \A i, j \in DOMAIN results :
            i < j => modeRank(results[i].mode) <= modeRank(results[j].mode)
       /\ \A i, j \in DOMAIN buildCsvRows(results) :
            i < j => modeRank(buildCsvRows(results)[i])
                        <= modeRank(buildCsvRows(results)[j])

-----------------------------------------------------------------------------
(* Helpers called on their own, outside a run of the page *)

\* no session: the variables of a run of the page are at rest
Detached ==
    /\ seeded = [datasetId |-> "people-1k", order |-> "ascending", pqMode |-> FALSE]
    /\ cache = [d \in DatasetIds |-> None]
    /\ pc = "detached"
    /\ run = NoRun
    /\ modeIdx = 0
    /\ results = <<>>
    /\ audit = <<>>
    /\ trace = NoTrace
    /\ prevCache = None

session == <<seeded, cache, pc, run, modeIdx, results, audit, trace, prevCache>>

-----------------------------------------------------------------------------
(* The sampleNote of clientCache, by the number of records the store holds *)

\* DATASETS of scripts/seed.ts: the records one run of the script adds
seedCount(id) ==
    IF id = "people-1k" THEN 1000 ELSE IF id = "people-10k" THEN 10000 ELSE 100000

\* the records of a dataset after runs complete runs of the seed script (doc()
\* draws fresh ids on every run) and one more interrupted after some flushes
storedAfter(id, runs, flushes) == runs * seedCount(id) + flushes * FLUSH_EVERY

\* the number of documents of getDocs(query(..., limit(pageSize))) over a
\* collection of stored documents
pageLength(stored, pageSize) == Min(stored, pageSize)

NoteInit ==
    /\ Detached
    /\ db = EmptyStore
    /\ \E id \in DOMAIN DATASET_SIZES, runs \in 0..MaxSeedRuns, flushes \in 0..MaxFlushes :
         probe = [call |-> "clientCache", phase |-> "seeded", datasetId |-> id,
                  stored |-> storedAfter(id, runs, flushes),
                  recordCount |-> 0, coldNote |-> None, warmNote |-> None]

\* benchmark.ts 248-279: the cold build over the store, by counts
NoteCold ==
    /\ probe.call = "clientCache"
    /\ probe.phase = "seeded"
    /\ LET datasetSize == getDatasetSize(probe.datasetId)
           fetched == pageLength(probe.stored, Min(datasetSize, CACHE_CAP))
       IN  probe' = [probe EXCEPT !.phase = "cold",
                                  !.recordCount = fetched,
                                  !.coldNote = coldSampleNote(datasetSize)]
    /\ UNCHANGED <<db, session>>

\* benchmark.ts 248-251, 280-286: a later run served from the cache entry
NoteWarm ==
    /\ probe.call = "clientCache"
    /\ probe.phase = "cold"
    /\ probe' = [probe EXCEPT !.phase = "warm",
                              !.warmNote = warmSampleNote(getDatasetSize(probe.datasetId),
                                                          probe.recordCount)]
    /\ UNCHANGED <<db, session>>

NoteNext == NoteCold \/ NoteWarm

NoteSpec == NoteInit /\ [][NoteNext]_vars

\* C14: every clientCache result, cold or warm, over a dataset that holds
\* more records than the cache entry carries a sampleNote, and the cold run
\* and the warm run after it agree on whether a note is present.
C14_NoteWhenTruncated ==
    /\ (probe.phase \in {"cold", "warm"} /\ probe.stored > probe.recordCount)
       => probe.coldNote # None
    /\ (probe.phase = "warm" /\ probe.stored > probe.recordCount)
       => probe.warmNote # None
    /\ probe.phase = "warm"
       => ((probe.coldNote = None) <=> (probe.warmNote = None))

-----------------------------------------------------------------------------
(* fetchAllRecords over a static store *)

\* a records collection with the documents ids
recordsWithIds(ids) ==
    [id \in ids |-> [ct |-> bytesToBase64(id), iv |-> bytesToBase64(id)]]

FetchInit ==
    /\ Detached
    /\ \E ids \in SUBSET (1..MaxDocId), pageSize \in 1..MaxPageSize :
         /\ db = [EmptyStore EXCEPT !.records = recordsWithIds(ids)]
         /\ probe = [call |-> "fetchAllRecords", pageSize |-> pageSize, out |-> None]

\* const { docs, fetchMs } = await fetchAllRecords(datasetId, pageSize)
FetchAll ==
    /\ probe.call = "fetchAllRecords"
    /\ probe.out = None
    /\ probe' = [probe EXCEPT !.out = Some(fetchAllRecords(records, probe.pageSize))]
    /\ UNCHANGED <<db, session>>

FetchNext == FetchAll

FetchSpec == FetchInit /\ [][FetchNext]_vars

\* C15: over a static store of N records (N = 0 and multiples of the page
\* size included), fetchAllRecords returns every record exactly once, in
\* ascending id order, each with its stored ct and iv; its cursor is the last
\* id of each full page, and it stops at the first short page, after
\* N \div pageSize + 1 page reads.
C15_FetchAllComplete ==
    (probe.call = "fetchAllRecords" /\ probe.out # None)
    => LET out == probe.out[1]
           ids == [k \in 1..Len(out.docs) |-> out.docs[k].id]
           n   == Cardinality(DOMAIN records)
           p   == probe.pageSize
       IN  /\ Len(ids) = n
           /\ Range(ids) = DOMAIN records
           /\ \A j, k \in 1..Len(ids) : j < k => ids[j] < ids[k]
           /\ \A k \in 1..Len(ids) : out.docs[k] = docOf(records, ids[k])
           /\ out.reads = (n \div p) + 1
           /\ \A r \in 1..(out.reads - 1) :
                SubSeq(out.docs, (r - 1) * p + 1, Min(r * p, n))
                    = getDocsPage(records, IF r = 1 THEN None ELSE Some(ids[(r - 1) * p]), p)
           /\ Len(getDocsPage(records, IF out.reads = 1 THEN None
                                       ELSE Some(ids[(out.reads - 1) * p]), p)) < p

\* a store of several full pages and nothing more: the last read is empty
C15_Witness ==
    /\ probe.call = "fetchAllRecords"
    /\ probe.out # None
    /\ probe.pageSize = 2
    /\ Cardinality(DOMAIN records) = 4
    /\ probe.out[1].reads = 3
    /\ Len(probe.out[1].docs) = 4

-----------------------------------------------------------------------------
(* encryptJson and decryptJson on their own *)

\* objects of JSON values: a PersonRecord, a BenchmarkBreakdown, and an
\* object with an array of objects
Payloads ==
    << [id |-> 7, name |-> Ann, email |-> emailOf(Ann, 7, <<"x">>)],
       [indexMs |-> 0, fetchMs |-> 1, decryptMs |-> 2, scanMs |-> 0],
       [datasetId |-> <<"p">>, records |-> <<[id |-> 1, name |-> Bob]>>, recordCount |-> 1] >>

\* the AES-GCM keys of three derivations
CryptoKeys ==
    << deriveKeys("demo-passphrase", getSalt, DEFAULT_KDF).encKey,
       deriveKeys("other-passphrase", getSalt, DEFAULT_KDF).encKey,
       deriveKeys("demo-passphrase", getSalt, PQ_KDF).encKey >>

\* values of crypto.getRandomValues(new Uint8Array(12))
Ivs == {1, 2}

\* what may happen to {ct, iv} between encryptJson and decryptJson: nothing;
\* a bit of the ciphertext bytes changes; a bit of the iv bytes changes; a
\* bit of the ct string changes that encodes no byte (the last character of
\* the base64 text of a ciphertext whose length is not a multiple of three)
Tamperings == {"none", "ctBit", "ivBit", "ctSpare"}

tampered(box, kind) ==
    IF kind = "ctBit" THEN [box EXCEPT !.ct.bytes.flipped = 1]
    ELSE IF kind = "ivBit" THEN [box EXCEPT !.iv.bytes = @ + 1]
    ELSE IF kind = "ctSpare" THEN [box EXCEPT !.ct.spare = 1]
    ELSE box

CryptoInit ==
    /\ Detached
    /\ db = EmptyStore
    /\ \E i \in 1..Len(Payloads), k \in 1..Len(CryptoKeys) :
         probe = [call |-> "encryptJson", phase |-> "plain",
                  payload |-> Payloads[i], encKey |-> CryptoKeys[k],
                  box |-> None, sealed |-> None, tampering |-> "none",
                  openKey |-> None, out |-> None]

\* const { ct, iv } = await encryptJson(payload, encKey)
Encrypt ==
    /\ probe.call = "encryptJson"
    /\ probe.phase = "plain"
    /\ \E iv \in Ivs :
         LET box == encryptJson(probe.payload, probe.encKey, iv)
         IN  probe' = [probe EXCEPT !.phase = "sealed", !.box = Some(box),
                                    !.sealed = Some(box)]
    /\ UNCHANGED <<db, session>>

\* the stored {ct, iv} is altered before it is read back
Tamper ==
    /\ probe.call = "encryptJson"
    /\ probe.phase = "sealed"
    /\ probe.tampering = "none"
    /\ \E kind \in Tamperings \ {"none"} :
         probe' = [probe EXCEPT !.tampering = kind,
                                !.box = Some(tampered(probe.box[1], kind))]
    /\ UNCHANGED <<db, session>>

\* await decryptJson(ct, iv, key)
Decrypt ==
    /\ probe.call = "encryptJson"
    /\ probe.phase = "sealed"
    /\ \E k \in 1..Len(CryptoKeys) :
         probe' = [probe EXCEPT !.phase = "opened", !.openKey = Some(CryptoKeys[k]),
                                !.out = Some(decryptJson(probe.box[1].ct, probe.box[1].iv,
                                                         CryptoKeys[k]))]
    /\ UNCHANGED <<db, session>>

CryptoNext == Encrypt \/ Tamper \/ Decrypt

CryptoSpec == CryptoInit /\ [][CryptoNext]_vars

C20_TamperRejected ==
    (probe.phase = "opened"
        /\ (probe.box # probe.sealed \/ probe.openKey # Some(probe.encKey)))
    => /\ ~probe.out[1].ok
       /\ probe.out[1].value = None

-----------------------------------------------------------------------------
(* normalize and prefixes on their own *)

\* the characters of the texts: an upper-case and a lower-case letter, a
\* space and a tab
TextAlphabet == {"A", "b", " ", "\t"}

\* every text of up to MaxTextLen characters, and two texts longer than
\* MAX_PREFIX_LEN: an address, and one with blanks and capitals
Texts ==
    UNION {[1..n -> TextAlphabet] : n \in 0..MaxTextLen}
    \cup { emailOf(Bob, 2, <<"m", "a", "i", "l", "b", "o", "x", ".", "e", "x", "a",
                             "m", "p", "l", "e", ".", "t", "e", "s", "t">>),
           <<" ", "A", "n", "n", " ", "\t", " ", "B", "o", "b", "\n", "A", "l", " ", " ",
             "A", "n", "n", "a", " ", "B", "o", "b", " ", "A", "l", "\t">> }

\* the maxLen arguments: none (the default), and small ones
MaxLens == {0, 1, 2, 3, MAX_PREFIX_LEN}

TextInit ==
    /\ Detached
    /\ db = EmptyStore
    /\ \E text \in Texts :
         probe = [call |-> "text", input |-> text, maxLen |-> 0,
                  once |-> None, twice |-> None, out |-> None]

\* normalize(text), and normalize of its result
Normalize ==
    /\ probe.call = "text"
    /\ probe.once = None
    /\ probe.out = None
    /\ probe' = [probe EXCEPT !.once = Some(normalize(probe.input)),
                              !.twice = Some(normalize(normalize(probe.input)))]
    /\ UNCHANGED <<db, session>>

\* prefixes(text, maxLen)
Prefixes ==
    /\ probe.call = "text"
    /\ probe.once = None
    /\ probe.out = None
    /\ \E maxLen \in MaxLens :
         probe' = [probe EXCEPT !.maxLen = maxLen,
                                !.out = Some(prefixes(probe.input, maxLen))]
    /\ UNCHANGED <<db, session>>

TextNext == Normalize \/ Prefixes

TextSpec == TextInit /\ [][TextNext]_vars

\* C21: normalize(normalize(x)) = normalize(x), and normalize(x) has no
\* leading or trailing whitespace, no upper-case letter and no two whitespace
\* characters in a row.
C21_NormalizeIdempotent ==
    (probe.call = "text" /\ probe.once # None)
    => LET n == probe.once[1]
       IN  /\ probe.twice[1] = n
           /\ n # <<>> => (~IsSpace(n[1]) /\ ~IsSpace(n[Len(n)]))
           /\ \A k \in 1..Len(n) : n[k] \notin UpperCase
           /\ \A k \in 1..(Len(n) - 1) : ~(IsSpace(n[k]) /\ IsSpace(n[k + 1]))

\* a text with blanks around it, capitals and a run of blanks inside
C21_Witness ==
    /\ probe.call = "text"
    /\ probe.once # None
    /\ probe.input = <<" ", "A", "n", "n", " ", "\t", " ", "B", "o", "b", "\n", "A", "l",
                       " ", " ", "A", "n", "n", "a", " ", "B", "o", "b", " ", "A", "l", "\t">>
    /\ probe.once[1] = <<"a", "n", "n", " ", "b", "o", "b", " ", "a", "l", " ",
                         "a", "n", "n", "a", " ", "b", "o", "b", " ", "a", "l">>

\* C22: prefixes(text, maxLen) is the sequence of the prefixes of
\* normalize(text) of lengths 1, 2, ..., min(maxLen, length of normalize(text)),
\* one per length and in that order: empty when the normalized text is empty,
\* and with no prefix longer than maxLen.
C22_PrefixesExact ==
    (probe.call = "text" /\ probe.out # None)
    => LET out  == probe.out[1]
           norm == normalize(probe.input)
       IN  /\ Len(out) = Min(probe.maxLen, Len(norm))
           /\ \A i \in 1..Len(out) :
                /\ Len(out[i]) = i
                /\ \A k \in 1..i : out[i][k] = norm[k]
           /\ norm = <<>> => out = <<>>
           /\ \A i \in 1..Len(out) : Len(out[i]) <= probe.maxLen

\* a normalized text of 22 characters gives its 20 first prefixes
C22_Witness ==
    /\ probe.call = "text"
    /\ probe.out # None
    /\ probe.maxLen = MAX_PREFIX_LEN
    /\ Len(normalize(probe.input)) > MAX_PREFIX_LEN
    /\ Len(probe.out[1]) = MAX_PREFIX_LEN
    /\ Len(probe.out[1][MAX_PREFIX_LEN]) = MAX_PREFIX_LEN

-----------------------------------------------------------------------------
(* Properties of the cache across runs *)

\* C24: a clientCache result of a run that read an existing cache entry has
\* read nothing from the store and decrypted nothing; its totalMs is the time
\* of the cache read plus the time of the scan; the build time stored in the
\* entry is reported as cacheBuildMs and is not part of totalMs.
C24_WarmFrame ==
    \A i \in DOMAIN results :
        (results[i].mode = "clientCache" /\ audit[i].prev # None /\ ~audit[i].readFailed)
        => /\ audit[i].reads = 0
           /\ results[i].breakdown.decryptMs = 0
           /\ results[i].breakdown.indexMs = 0
           /\ results[i].totalMs = elapsed(1) + results[i].breakdown.scanMs
           /\ results[i].breakdown.fetchMs = elapsed(1)
           /\ results[i].breakdown.cacheBuildMs # None

\* a result served from an entry whose build took longer than the whole of
\* the warm result
C24_Witness ==
    \E i \in DOMAIN results :
        /\ audit[i].path = "warm"
        /\ run.tick = 1
        /\ results[i].totalMs = 2
        /\ results[i].breakdown.cacheBuildMs[1] > results[i].totalMs

\* C25 as amended: the cache entry of a dataset changes only by an explicit
\* clear, or by a clientCache mode whose read of the cache returned nothing:
\* there was no entry, or there was one and the read failed, and then the
\* entry is replaced by the one built from the store.  A clientCache mode
\* that has read the entry never writes it.
C25_WrittenWhenNotRead ==
    [][cache'[datasetId] # cache[datasetId]
       => \/ /\ pc = "idle"
             /\ cache'[datasetId] = None
          \/ /\ AtMode("clientCache")
             /\ Len(audit') = Len(audit) + 1
             /\ audit'[Len(audit')].path = "cold"
             /\ audit'[Len(audit')].prev = None \/ audit'[Len(audit')].readFailed
             /\ cache'[datasetId] # None
             /\ cache'[datasetId][1].recordCount = audit'[Len(audit')].fetched]_vars

\* a run served from the entry, then failed to read it: the entry it leaves is
\* not the one it was served from
C25_Witness ==
    /\ Len(results) = 2
    /\ audit[1].path = "warm"
    /\ audit[2].path = "cold"
    /\ audit[2].readFailed
    /\ audit[2].prev # None
    /\ cache[datasetId] # None
    /\ Some(cache[datasetId][1].buildMs) # results[1].breakdown.cacheBuildMs

\* C25 as stated: once a dataset has a cache entry, the entry changes only by
\* being cleared.
C25_AsStated ==
    [][(cache[datasetId] # None /\ cache'[datasetId] # cache[datasetId])
       => cache'[datasetId] = None]_vars

C29_WarmIgnoresKeys ==
    \A i \in DOMAIN results :
        audit[i].path = "warm"
        => /\ results[i].resultCount = Cardinality(storeMatches)
           /\ Range(audit[i].sequence) = storeMatches
           /\ Len(results[i].hits) = Min(MAX_HITS, Cardinality(storeMatches))
           /\ \A k \in 1..Len(results[i].hits) :
                /\ results[i].hits[k].id = audit[i].sequence[k]
                /\ results[i].hits[k] =
                       [storedRecord(results[i].hits[k].id)
                           EXCEPT !.id = results[i].hits[k].id]

\* a run with another passphrase, whose key opens no record, is served the
\* matching records in plaintext from the cache
C29_Witness ==
    \E i \in DOMAIN results :
        /\ audit[i].path = "warm"
        /\ run.options.passphrase # SeedPassphrase
        /\ results[i].resultCount > 0
        /\ results[i].hits # <<>>
        /\ \A id \in DOMAIN records :
              ~aesGcmDecrypt(base64ToBytes(records[id].iv), encKey,
                             base64ToBytes(records[id].ct)).ok

-----------------------------------------------------------------------------
(* clientCache and decryptScan over stores around the size of the cache page *)

\* the datasets searched: one whose declared size is the page of the cold
\* build, one whose declared size is well above the store
CapDatasets == {"people-1k", "people-10k"}

\* the numbers of records of the store: a few, the declared size of
\* people-1k, and one more
CapSizes == {2, DATASET_SIZES["people-1k"], DATASET_SIZES["people-1k"] + 1}

\* the queries: most records, one record, the address of the last record of
\* the largest store, no record
CapQueries ==
    { <<"a">>, <<"b", "o", "b">>,
      emailOf(Anna, DATASET_SIZES["people-1k"] + 1, <<"x">>), <<"z">> }

\* the keys of the writer, which the reader shares
capKeys == deriveKeys(SeedPassphrase, getSalt, DEFAULT_KDF)

\* datasets/{datasetId}/records with n records of the synthetic people
capRecords(n) ==
    [id \in 1..n |->
        LET person == BigPerson(id)
            enc == encryptJson([id |-> id, name |-> person.name, email |-> person.email],
                               capKeys.encKey, id)
        IN  [ct |-> enc.ct, iv |-> enc.iv]]

\* resultCount and hits of a result, and the ids of all its matches
capResult(matches) ==
    [resultCount |-> Len(matches), hits |-> hitsOf(matches),
     matched |-> [k \in 1..Len(matches) |-> matches[k].id]]

CapInit ==
    /\ Detached
    /\ \E id \in CapDatasets, n \in CapSizes, q \in CapQueries :
         /\ db = [EmptyStore EXCEPT !.records = capRecords(n)]
         /\ probe = [call |-> "cacheAndScan", datasetId |-> id, normalizedQuery |-> q,
                     entry |-> None, cold |-> None, warm |-> None, scan |-> None]

\* benchmark.ts 247-311, !cached: the page is fetched, decrypted, persisted
\* and searched
CapCold ==
    /\ probe.call = "cacheAndScan"
    /\ probe.entry = None
    /\ LET datasetSize == getDatasetSize(probe.datasetId)
           fetched     == fetchRecordPage(records, Min(datasetSize, CACHE_CAP))
           decrypted   == decryptRecords(fetched.docs, capKeys.encKey)
           matches     == searchCache(decrypted.records, probe.normalizedQuery)
       IN  probe' = [probe EXCEPT
                        !.entry = Some(cacheEntry(probe.datasetId, decrypted.records, 0)),
                        !.cold = Some(capResult(matches))]
    /\ UNCHANGED <<db, session>>

\* benchmark.ts 247-311, cached: the records of the entry are searched
CapWarm ==
    /\ probe.call = "cacheAndScan"
    /\ probe.entry # None
    /\ probe.warm = None
    /\ probe' = [probe EXCEPT
                    !.warm = Some(capResult(searchCache(probe.entry[1].records,
                                                        probe.normalizedQuery)))]
    /\ UNCHANGED <<db, session>>

\* benchmark.ts 228-245: decryptScan
CapScan ==
    /\ probe.call = "cacheAndScan"
    /\ probe.scan = None
    /\ LET fetched   == fetchAllRecords(records, FULL_SCAN_PAGE_SIZE)
           decrypted == decryptRecords(fetched.docs, capKeys.encKey)
           matches   == scanRecords(decrypted.records, probe.normalizedQuery)
       IN  probe' = [probe EXCEPT !.scan = Some(capResult(matches))]
    /\ UNCHANGED <<db, session>>

CapNext == CapCold \/ CapWarm \/ CapScan

CapSpec == CapInit /\ [][CapNext]_vars

\* the clientCache results delivered so far, cold and warm
capCacheResults ==
    {r \in {probe.cold, probe.warm} : r # None}

\* C26: over a static store that holds at most CACHE_CAP records and as many
\* as the declared size of the dataset, clientCache, cold or warm, returns the
\* resultCount and the hits of decryptScan for the same query; over any
\* store, every record clientCache matches is matched by decryptScan.
C26_CacheEqualsScan ==
    (probe.call = "cacheAndScan" /\ probe.scan # None)
    => \A r \in capCacheResults :
          /\ ( /\ Cardinality(DOMAIN records) <= CACHE_CAP
               /\ Cardinality(DOMAIN records) = getDatasetSize(probe.datasetId) )
             => /\ r[1].resultCount = probe.scan[1].resultCount
                /\ r[1].hits = probe.scan[1].hits
          /\ Range(r[1].matched) \subseteq Range(probe.scan[1].matched)

\* a store of the declared size: the cold result, the warm result and the
\* scan agree on a count above MAX_HITS
C26_Witness ==
    /\ probe.call = "cacheAndScan"
    /\ Cardinality(DOMAIN records) = getDatasetSize(probe.datasetId)
    /\ probe.cold # None /\ probe.warm # None /\ probe.scan # None
    /\ probe.cold[1].resultCount > MAX_HITS
    /\ probe.warm[1].resultCount = probe.scan[1].resultCount
    /\ probe.cold[1].hits = probe.scan[1].hits

\* a store larger than its declared size: the cache misses a record the scan
\* matches
C26_WitnessCapped ==
    /\ probe.call = "cacheAndScan"
    /\ Cardinality(DOMAIN records) > getDatasetSize(probe.datasetId)
    /\ probe.warm # None /\ probe.scan # None
    /\ probe.warm[1].resultCount = 0
    /\ probe.scan[1].resultCount = 1

-----------------------------------------------------------------------------
(* The pagination loop of fetchAllRecords, page by page *)

\* a cursor put on the first document of the page
firstOfPage(snapshot) == snapshot[1].id

\* lastId = snapshot.docs[snapshot.docs.length - 1]?.id
lastOfPage(snapshot) == snapshot[Len(snapshot)].id

PageInit ==
    /\ Detached
    /\ \E ids \in SUBSET (1..MaxDocId), pageSize \in 1..MaxPageSize :
         /\ db = [EmptyStore EXCEPT !.records = recordsWithIds(ids)]
         /\ probe = [call |-> "fetchAllRecords.loop", pageSize |-> pageSize,
                     phase |-> "query", lastId |-> None, docs |-> <<>>, reads |-> 0]

\* lines 115-126: the page query is built from the cursor and sent
PageRequest ==
    /\ probe.call = "fetchAllRecords.loop"
    /\ probe.phase = "query"
    /\ probe' = [probe EXCEPT !.phase = "awaiting"]
    /\ UNCHANGED <<db, session>>

\* lines 126-137: the snapshot arrives; its documents are pushed, and the
\* loop breaks on a short page or moves the cursor
PageAnswer ==
    /\ probe.call = "fetchAllRecords.loop"
    /\ probe.phase = "awaiting"
    /\ LET snapshot == getDocsPage(records, probe.lastId, probe.pageSize)
           pushed   == [probe EXCEPT !.docs = @ \o snapshot, !.reads = @ + 1]
       IN  probe' = IF Len(snapshot) < probe.pageSize
                    THEN [pushed EXCEPT !.phase = "done"]
                    ELSE IF snapshot = <<>>
                    THEN [pushed EXCEPT !.phase = "done"]
                    ELSE [pushed EXCEPT !.phase = "query",
                                        !.lastId = Some(lastOfPage(snapshot))]
    /\ UNCHANGED <<db, session>>

PageNext == PageRequest \/ PageAnswer

PageSpec == PageInit /\ [][PageNext]_vars

\* every request is answered and the loop, once resumed, runs on
PageLive == PageSpec /\ WF_vars(PageRequest) /\ WF_vars(PageAnswer)

\* C28: over a finite static store where every page request is answered, the
\* pagination loop of fetchAllRecords terminates; each iteration either
\* stops the loop or moves the cursor to a strictly greater id; and the loop
\* stops after N \div S + 1 page reads for N records and page size S.
C28_FetchTerminates ==
    /\ <>(probe.call = "fetchAllRecords.loop" /\ probe.phase = "done")
    /\ [][probe'.reads = probe.reads + 1
          => \/ probe'.phase = "done"
             \/ /\ probe'.lastId # None
                /\ probe.lastId # None => probe'.lastId[1] > probe.lastId[1]]_vars
    /\ [](probe.phase = "done"
          => probe.reads = (Cardinality(DOMAIN records) \div probe.pageSize) + 1)

\* six records in pages of three: two full pages and an empty third
C28_Witness ==
    /\ probe.call = "fetchAllRecords.loop"
    /\ probe.phase = "done"
    /\ probe.pageSize = MaxPageSize
    /\ Len(probe.docs) = 2 * MaxPageSize
    /\ probe.reads = 3
    /\ probe.lastId = Some(2 * MaxPageSize)

-----------------------------------------------------------------------------
(* seedDataset of scripts/seed.ts, record by record and commit by commit *)

\* the numbers of records seeded: less than a flush, and a flush and two more
SeedCounts == {3, FLUSH_EVERY + 2}

\* the keys seedDataset derives
seedKeys == deriveKeys(SeedPassphrase, SeedSalt, DEFAULT_KDF)

\* flushBatches that queues the blind index before the records
flushOrderIndexFirst == <<"index", "records", "plaintextIndex">>

\* flushBatches 159-201: the record writes, then queueIndex("index"), then
\* queueIndex("plaintextIndex")
flushOrder == <<"records", "index", "plaintextIndex">>

\* append(map, key, recordId) for every key of keys: a Map keeps its entries
\* in insertion order
appendEach(map, keys, recordId) ==
    LET present == {map[k].key : k \in 1..Len(map)}
        fresh   == SelectSeq(keys, LAMBDA key : key \notin present)
    IN  [k \in 1..Len(map) |->
            IF map[k].key \in Range(keys)
            THEN [map[k] EXCEPT !.ids = Append(@, recordId)] ELSE map[k]]
        \o [k \in 1..Len(fresh) |-> [key |-> fresh[k], ids |-> <<recordId>>]]

\* the batches in which the writes queued for a collection are committed:
\* a commit at every SEED_BATCH_OPS operations, and one for the rest
batchesOf(collection, p) ==
    chunk(CASE collection = "records" -> p.recordWrites
            [] collection = "index" -> p.indexUpdates
            [] collection = "plaintextIndex" -> p.plaintextUpdates,
          SEED_BATCH_OPS)

\* flushBatches is entered: the batches of its first collection are queued
startFlush(p) ==
    [p EXCEPT !.phase = "flush", !.stage = 1, !.batches = batchesOf(flushOrder[1], p)]

\* batch.commit() of one batch of writes to a collection
commit(store, collection, batch) ==
    flushBatches(store,
        [recordWrites |->
            IF collection = "records"
            THEN [id \in {batch[k].id : k \in 1..Len(batch)} |->
                    (CHOOSE w \in Range(batch) : w.id = id).data]
            ELSE <<>>,
         indexUpdates |->
            IF collection = "index"
            THEN [key \in {batch[k].key : k \in 1..Len(batch)} |->
                    (CHOOSE e \in Range(batch) : e.key = key).ids]
            ELSE <<>>,
         plaintextUpdates |->
            IF collection = "plaintextIndex"
            THEN [key \in {batch[k].key : k \in 1..Len(batch)} |->
                    (CHOOSE e \in Range(batch) : e.key = key).ids]
            ELSE <<>>])

SeedInit ==
    /\ Detached
    /\ db = EmptyStore
    /\ \E count \in SeedCounts, order \in IdOrders :
         probe = [call |-> "seedDataset", count |-> count, order |-> order, i |-> 0,
                  recordWrites |-> <<>>, indexUpdates |-> <<>>, plaintextUpdates |-> <<>>,
                  phase |-> "loop", stage |-> 0, batches |-> <<>>, ops |-> 0]

\* seedDataset 237-257: one iteration of the for loop, with flushIfNeeded
SeedRecord ==
    /\ probe.call = "seedDataset"
    /\ probe.phase = "loop"
    /\ probe.i < probe.count
    /\ LET id     == IF probe.order = "ascending" THEN probe.i + 1
                     ELSE probe.count - probe.i
           person == BigPerson(probe.i)
           record == [id |-> id, name |-> person.name, email |-> person.email]
           enc    == encryptJson(record, seedKeys.encKey, id)
           sp     == searchPrefixes(record)
           tokens == [k \in 1..Len(sp) |-> computeToken(sp[k], seedKeys.indexKey)]
           pushed == [probe EXCEPT
                        !.i = @ + 1,
                        !.recordWrites = Append(@, [id |-> id,
                                                    data |-> [ct |-> enc.ct, iv |-> enc.iv]]),
                        !.indexUpdates = appendEach(@, tokens, id),
                        !.plaintextUpdates = appendEach(@, sp, id)]
       IN  probe' = IF (probe.i + 1) % FLUSH_EVERY = 0 THEN startFlush(pushed) ELSE pushed
    /\ UNCHANGED <<db, session>>

\* seedDataset 259-263: after the loop, what is left is flushed
SeedEnd ==
    /\ probe.call = "seedDataset"
    /\ probe.phase = "loop"
    /\ probe.i = probe.count
    /\ probe' = IF probe.recordWrites # <<>> THEN startFlush(probe)
                ELSE [probe EXCEPT !.phase = "done"]
    /\ UNCHANGED <<db, session>>

\* flushBatches 153-168 and 178-197: one batch is committed
CommitBatch ==
    /\ probe.call = "seedDataset"
    /\ probe.phase = "flush"
    /\ probe.batches # <<>>
    /\ db' = commit(db, flushOrder[probe.stage], Head(probe.batches))
    /\ probe' = [probe EXCEPT !.batches = Tail(@), !.ops = Len(Head(probe.batches))]
    /\ UNCHANGED session

\* flushBatches 168-201 and seedDataset 231-233: the next collection is
\* queued, or the flush returns and the three queues are emptied
NextCollection ==
    /\ probe.call = "seedDataset"
    /\ probe.phase = "flush"
    /\ probe.batches = <<>>
    /\ probe' = IF probe.stage < Len(flushOrder)
                THEN [probe EXCEPT !.stage = @ + 1,
                                   !.batches = batchesOf(flushOrder[probe.stage + 1], probe)]
                ELSE [probe EXCEPT !.phase = "loop", !.stage = 0,
                                   !.recordWrites = <<>>, !.indexUpdates = <<>>,
                                   !.plaintextUpdates = <<>>]
    /\ UNCHANGED <<db, session>>

SeedNext ==
    \/ SeedRecord
    \/ SeedEnd
    \/ CommitBatch
    \/ NextCollection

SeedSpec == SeedInit /\ [][SeedNext]_vars

\* C30: at every point of seedDataset, between any two commits, every id in
\* a bucket of the blind index or of the plaintext index is the id of a
\* record document already committed; once a flush has moved on from its
\* record writes, all of them are committed; and no committed batch holds
\* more than SEED_BATCH_OPS operations.
C30_IndexAfterRecords ==
    probe.call = "seedDataset"
    => /\ \A t \in DOMAIN index : Range(index[t].recordIds) \subseteq DOMAIN records
       /\ \A q \in DOMAIN plaintextIndex :
            Range(plaintextIndex[q].recordIds) \subseteq DOMAIN records
       /\ (probe.phase = "flush" /\ probe.stage > 1)
          => \A k \in 1..Len(probe.recordWrites) :
                probe.recordWrites[k].id \in DOMAIN records
       /\ probe.ops <= SEED_BATCH_OPS

\* in the middle of the first flush: the 250 records and a first batch of
\* SEED_BATCH_OPS buckets of the blind index are committed, the rest of the
\* blind index and the plaintext index are not yet
C30_Witness ==
    /\ probe.call = "seedDataset"
    /\ probe.phase = "flush"
    /\ probe.i = FLUSH_EVERY
    /\ flushOrder[probe.stage] = "index"
    /\ probe.ops = SEED_BATCH_OPS
    /\ probe.batches # <<>>
    /\ Cardinality(DOMAIN records) = FLUSH_EVERY
    /\ Cardinality(DOMAIN index) = SEED_BATCH_OPS
    /\ plaintextIndex = <<>>

-----------------------------------------------------------------------------
(* runBenchmark await by await: the requests a run has outstanding *)

\* the selections of modes of the runs followed request by request
StepModeLists ==
    { <<"blindIndex">>, <<"plaintextIndex", "decryptScan">>,
      <<"clientCache", "blindIndex">>, <<"decryptScan", "clientCache">> }

\* the lengths of the bucket read by the index modes: empty, one group, a
\* full group, two groups, more than the cap
BucketSizes == {0, 1, BATCH_SIZE, BATCH_SIZE + 1, MAX_RESULT_FETCH + 1}

\* the numbers of records of the store: none, less than a page, a full page
StoreSizes == {0, 2, FULL_SCAN_PAGE_SIZE}

\* the groups whose getDocs is sent at once: every group of the chunks left
\* (Promise.all over the groups)
issueAllGroups(groups) == groups

\* for (const group of chunk(recordIds, 10)) { await getDocs(...) }: the
\* getDocs of one group is sent, and awaited before the next
issueGroups(groups) == <<Head(groups)>>

\* position in the order of the phases of a mode
phaseRank(phase) ==
    CASE phase = "index" -> 1
      [] phase = "cacheRead" -> 1
      [] phase = "fetch" -> 2
      [] phase = "decrypt" -> 3
      [] phase = "cacheWrite" -> 4
      [] phase = "scan" -> 5

stepMode == probe.modes[probe.modeIdx]

\* the run enters a phase of the current mode
enter(p, phase, step) ==
    [p EXCEPT !.phase = phase, !.step = step,
              !.log = Append(@, <<p.modeIdx, phase>>)]

StepInit ==
    /\ Detached
    /\ \E modes \in StepModeLists, b \in BucketSizes, n \in StoreSizes, cached \in BOOLEAN :
         /\ db = [EmptyStore EXCEPT !.records = recordsWithIds(1..n)]
         /\ probe = [call |-> "runBenchmark", modes |-> modes,
                     bucket |-> [k \in 1..b |-> k], cached |-> cached,
                     modeIdx |-> 1, phase |-> "next", step |-> "send",
                     inflight |-> <<>>, groups |-> <<>>, lastId |-> None,
                     sent |-> <<>>, log |-> <<>>]

\* for (const mode of modes): the branch of the mode is entered
StartMode ==
    /\ probe.call = "runBenchmark"
    /\ probe.phase = "next"
    /\ probe.modeIdx <= Len(probe.modes)
    /\ probe' = enter([probe EXCEPT !.lastId = None, !.groups = <<>>],
                      IF stepMode \in {"blindIndex", "plaintextIndex"} THEN "index"
                      ELSE IF stepMode = "decryptScan" THEN "fetch" ELSE "cacheRead",
                      "send")
    /\ UNCHANGED <<db, session>>

\* the call before an await: getDoc, getDocs, getCachedDataset or
\* setCachedDataset is sent to the store or to the cache
Send ==
    /\ probe.call = "runBenchmark"
    /\ probe.step = "send"
    /\ probe.phase \in {"index", "fetch", "cacheRead", "cacheWrite"}
    /\ LET tag(to, ids) == [to |-> to, mode |-> probe.modeIdx, phase |-> probe.phase,
                            ids |-> ids]
           now == issueGroups(probe.groups)
           requests ==
               CASE probe.phase = "index" -> <<tag("store", <<>>)>>
                 [] probe.phase \in {"cacheRead", "cacheWrite"} -> <<tag("cache", <<>>)>>
                 [] probe.phase = "fetch" /\ stepMode \in {"blindIndex", "plaintextIndex"} ->
                        [k \in 1..Len(now) |-> tag("store", now[k])]
                 [] OTHER -> <<tag("store", <<>>)>>
           left == IF probe.phase = "fetch" /\ stepMode \in {"blindIndex", "plaintextIndex"}
                   THEN SubSeq(probe.groups, Len(now) + 1, Len(probe.groups))
                   ELSE probe.groups
       IN  probe' = [probe EXCEPT !.step = "wait", !.inflight = requests,
                                  !.groups = left, !.sent = @ \o requests]
    /\ UNCHANGED <<db, session>>

\* the store or the cache answers a request
Answer ==
    /\ probe.call = "runBenchmark"
    /\ probe.inflight # <<>>
    /\ probe' = [probe EXCEPT !.inflight = Tail(@)]
    /\ UNCHANGED <<db, session>>

\* benchmark.ts 162-173 and 195-208: the index document has arrived; the
\* bucket is capped and chunked
ResumeIndex ==
    /\ probe.call = "runBenchmark"
    /\ probe.phase = "index"
    /\ probe.step = "wait"
    /\ probe.inflight = <<>>
    /\ LET groups == chunk(cappedIdsOf(probe.bucket), BATCH_SIZE)
       IN  probe' = enter([probe EXCEPT !.groups = groups], "fetch",
                          IF groups = <<>> THEN "wait" ELSE "send")
    /\ UNCHANGED <<db, session>>

\* fetchRecordsByIds 45-57: what was awaited has arrived; the loop goes to
\* the next group, or returns
ResumeFetch ==
    /\ probe.call = "runBenchmark"
    /\ probe.phase = "fetch"
    /\ stepMode \in {"blindIndex", "plaintextIndex"}
    /\ probe.step = "wait"
    /\ probe.inflight = <<>>
    /\ probe' = IF probe.groups # <<>> THEN [probe EXCEPT !.step = "send"]
                ELSE enter(probe, "decrypt", "compute")
    /\ UNCHANGED <<db, session>>

\* fetchAllRecords 121-133 and fetchRecordPage 67-74: the page has arrived
ResumePage ==
    /\ probe.call = "runBenchmark"
    /\ probe.phase = "fetch"
    /\ stepMode \in {"decryptScan", "clientCache"}
    /\ probe.step = "wait"
    /\ probe.inflight = <<>>
    /\ LET snapshot == getDocsPage(records, probe.lastId, FULL_SCAN_PAGE_SIZE)
       IN  probe' = IF stepMode = "clientCache" \/ Len(snapshot) < FULL_SCAN_PAGE_SIZE
                    THEN enter(probe, "decrypt", "compute")
                    ELSE [probe EXCEPT !.lastId = Some(snapshot[Len(snapshot)].id),
                                       !.step = "send"]
    /\ UNCHANGED <<db, session>>

\* benchmark.ts 250-258 and 269-288: getCachedDataset or setCachedDataset
\* has settled
ResumeCache ==
    /\ probe.call = "runBenchmark"
    /\ probe.phase \in {"cacheRead", "cacheWrite"}
    /\ probe.step = "wait"
    /\ probe.inflight = <<>>
    /\ probe' = IF probe.phase = "cacheWrite" \/ probe.cached
                THEN enter(probe, "scan", "compute")
                ELSE enter(probe, "fetch", "send")
    /\ UNCHANGED <<db, session>>

\* decryptRecords, scanRecords / searchCache and results.push: no request to
\* the store or to the cache
Compute ==
    /\ probe.call = "runBenchmark"
    /\ probe.step = "compute"
    /\ probe.inflight = <<>>
    /\ probe' = IF probe.phase = "decrypt" /\ stepMode = "decryptScan"
                THEN enter(probe, "scan", "compute")
                ELSE IF probe.phase = "decrypt" /\ stepMode = "clientCache"
                THEN enter(probe, "cacheWrite", "send")
                ELSE [probe EXCEPT !.phase = "next", !.step = "send",
                                   !.modeIdx = @ + 1]
    /\ UNCHANGED <<db, session>>

\* return results
Finish ==
    /\ probe.call = "runBenchmark"
    /\ probe.phase = "next"
    /\ probe.modeIdx > Len(probe.modes)
    /\ probe' = [probe EXCEPT !.phase = "done"]
    /\ UNCHANGED <<db, session>>

StepNext ==
    \/ StartMode
    \/ Send
    \/ Answer
    \/ ResumeIndex
    \/ ResumeFetch
    \/ ResumePage
    \/ ResumeCache
    \/ Compute
    \/ Finish

StepSpec == StepInit /\ [][StepNext]_vars

\* C23: during a run at most one request to the store or to the cache is
\* outstanding; the ids of a bucket are requested in groups of at most
\* BATCH_SIZE, one group after another and in bucket order; the phases of a
\* mode are entered in the order index, fetch, decrypt, scan, each with
\* nothing of the previous one outstanding; and a mode is entered only after
\* the mode before it has finished.
C23_OneRequestAtATime ==
    probe.call = "runBenchmark"
    => /\ Len(probe.inflight) <= 1
       /\ \A k \in 1..Len(probe.inflight) :
            /\ probe.inflight[k].mode = probe.modeIdx
            /\ probe.inflight[k].phase = probe.phase
       /\ \A k \in 1..Len(probe.sent) : Len(probe.sent[k].ids) <= BATCH_SIZE
       /\ \A j, k \in 1..Len(probe.sent) :
            (j < k /\ probe.sent[j].mode = probe.sent[k].mode
                /\ probe.sent[j].ids # <<>> /\ probe.sent[k].ids # <<>>)
            => probe.sent[j].ids[Len(probe.sent[j].ids)] < probe.sent[k].ids[1]
       /\ \A k \in 1..(Len(probe.log) - 1) :
            \/ probe.log[k][1] < probe.log[k + 1][1]
            \/ /\ probe.log[k][1] = probe.log[k + 1][1]
               /\ phaseRank(probe.log[k][2]) < phaseRank(probe.log[k + 1][2])

\* a bucket of more than MAX_RESULT_FETCH ids has been fetched in five
\* groups, the last of which is outstanding alone
C23_Witness ==
    /\ probe.call = "runBenchmark"
    /\ Len(probe.bucket) > MAX_RESULT_FETCH
    /\ probe.phase = "fetch"
    /\ Len(probe.sent) = 6
    /\ probe.groups = <<>>
    /\ Len(probe.inflight) = 1
    /\ Len(probe.inflight[1].ids) = BATCH_SIZE

=============================================================================
